---- MODULE Spec2Model ----
(***************************************************************************)
(* Resumable ingestion pipelines of the repository:                        *)
(*   - ecosystem_parser.py : bookmark-driven parse of JSON files into the  *)
(*     package database (specification Spec);                              *)
(*   - npm_plus.py : chunked, thread-pooled fetch of npm metadata with a   *)
(*     completion index rebuilt from the output artifacts and the error    *)
(*     log (specifications SpecNpm, SpecPools; log_error alone: SpecLog);  *)
(*   - oss_craw.py : the crawl of the result pages, in parallel            *)
(*     (SpecCrawl, SpecCrawlLive), page by page (SpecSeq), both (SpecBoth);*)
(*   - npm.py : the paged listing of the registry's package names          *)
(*     (SpecNames, and SpecNamesLive with weak fairness of the loop).      *)
(* SpecParse runs the parser over files with blank, rejected and           *)
(* over-long values; SpecKill and SpecSave add kills and bookmark-write    *)
(* failures to Spec; SpecCount runs it over files that exercise the        *)
(* counters of the bookmark.                                               *)
(* A process kill (Crash) can happen between any two steps; what survives  *)
(* it is the bookmark file, the database, the output artifacts and the     *)
(* error log.                                                              *)
(***************************************************************************)
EXTENDS Integers, Sequences, FiniteSets, TLC

\* ------------------------------------------------------------------ bounds
\* Invocations of ecosystem_parser main() in one behaviour.
MaxRuns == 2
\* Database errors (connect or commit) injected in one behaviour.
MaxDbFailures == 1
\* Calls of save_bookmark after which the file can still become unwritable.
MaxSaveFailures == 2

\* --------------------------------------------------------------- constants
\* ecosystem_parser.py:31 (50000 in the source, scaled to the file sizes below).
AUTO_SAVE_INTERVAL == 2
\* ecosystem_parser.py:29 (1000 in the source, scaled): a batch holds more than
\* one record, and a list of three records takes two batches.
BATCH_SIZE == 2

\* ------------------------------------------------------------ file contents
\* A line of a file is a sequence of tokens; whitespace is not modelled.
Tok(t, n, v) == [t |-> t, Name |-> n, Versions |-> v]
LB == Tok("[", "", <<>>)
RB == Tok("]", "", <<>>)
COMMA == Tok(",", "", <<>>)
\* A truncated JSON object: json.loads raises JSONDecodeError on it.
BAD == Tok("bad", "", <<>>)
\* A complete JSON object {"Name": n, "Versions": v}.
OBJ(n, v) == Tok("obj", n, v)

Last(s) == s[Len(s)]
ButLast(s) == SubSeq(s, 1, Len(s) - 1)

\* str.startswith('[') / str.startswith(']') on a stripped line.
StartsWithBracket(line) == Len(line) > 0 /\ line[1].t \in {"[", "]"}

\* line[:-1] when line.endswith(',').
StripTrailingComma(line) ==
  IF Len(line) > 0 /\ Last(line).t = "," THEN ButLast(line) ELSE line

\* json.loads(line) succeeds on exactly one complete JSON value.
JsonLineOk(line) == Len(line) = 1 /\ line[1].t = "obj"

\* The decision of ecosystem_parser.py:200 (large path) and :238 (small path):
\* is the line handed to json.loads at all.
LineConsidered(line, small) ==
  /\ Len(line) > 0
  /\ (small => line # <<COMMA>>)
  /\ ~StartsWithBracket(line)

\* The outcome of one line: <<TRUE, package>> or <<FALSE, _>> (skipped or
\* JSONDecodeError).  The package carries the place it came from (src), which
\* the program does not have: it only serves to state what was committed.
ParseLine(line, small, file_path, k) ==
  LET l2 == StripTrailingComma(line)
  IN IF LineConsidered(line, small) /\ JsonLineOk(l2)
       THEN <<TRUE, [Name |-> l2[1].Name, Versions |-> l2[1].Versions,
                     src |-> <<file_path, k>>]>>
       ELSE <<FALSE, [Name |-> "", Versions |-> <<>>, src |-> <<file_path, k>>]>>

\* content = f.read().strip(): the tokens of all lines, in order.
RECURSIVE Flatten(_)
Flatten(lines) ==
  IF lines = <<>> THEN <<>> ELSE Head(lines) \o Flatten(Tail(lines))

\* json.loads on the inside of an array: value (',' value)*.
RECURSIVE JsonElementsOk(_)
JsonElementsOk(toks) ==
  IF Len(toks) = 1 THEN toks[1].t = "obj"
  ELSE /\ Len(toks) >= 3
       /\ toks[1].t = "obj"
       /\ toks[2].t = ","
       /\ JsonElementsOk(SubSeq(toks, 3, Len(toks)))

\* content.startswith('[') and content.endswith(']') (ecosystem_parser.py:233).
LooksLikeArray(content) ==
  Len(content) > 0 /\ content[1].t = "[" /\ Last(content).t = "]"

\* json.loads(content) of line 234 does not raise.
JsonArrayOk(content) ==
  /\ Len(content) >= 2
  /\ content[1].t = "["
  /\ Last(content).t = "]"
  /\ LET inner == SubSeq(content, 2, Len(content) - 1)
     IN inner = <<>> \/ JsonElementsOk(inner)

\* The list json.loads(content) returns, each element with its place.
RECURSIVE ArrayPackages(_, _, _)
ArrayPackages(content, file_path, k) ==
  IF k > Len(content) THEN <<>>
  ELSE IF content[k].t = "obj"
    THEN <<[Name |-> content[k].Name, Versions |-> content[k].Versions,
            src |-> <<file_path, k>>]>> \o ArrayPackages(content, file_path, k + 1)
    ELSE ArrayPackages(content, file_path, k + 1)

\* The else branch of the small path (ecosystem_parser.py:236-245).
RECURSIVE SmallLinePackages(_, _, _)
SmallLinePackages(lines, file_path, k) ==
  IF k > Len(lines) THEN <<>>
  ELSE LET r == ParseLine(lines[k], TRUE, file_path, k - 1)
       IN (IF r[1] THEN <<r[2]>> ELSE <<>>) \o SmallLinePackages(lines, file_path, k + 1)

\* The small-file branch as a whole: [success, packages].  A content that looks
\* like an array and does not decode raises out of json.loads, and the except
\* of line 258 turns that into success = False.
ParseSmall(lines, file_path) ==
  LET content == Flatten(lines)
  IN IF LooksLikeArray(content)
       THEN IF JsonArrayOk(content)
              THEN [success |-> TRUE, packages |-> ArrayPackages(content, file_path, 1)]
              ELSE [success |-> FALSE, packages |-> <<>>]
       ELSE [success |-> TRUE, packages |-> SmallLinePackages(lines, file_path, 1)]

\* ------------------------------------------------------------------ inputs
\* find_json_files(): the ecosystems in the order main() iterates them, and the
\* files of each in the order process_ecosystem_with_bookmark iterates them.
EcoOrder == <<"npm", "pypi">>
FilesOf(ecosystem) ==
  IF ecosystem = "npm" THEN <<"npm1.json", "npm2.json">> ELSE <<"pypi1.json">>
Ecosystems == {EcoOrder[i] : i \in 1..Len(EcoOrder)}
FilePaths == UNION {{FilesOf(e)[i] : i \in 1..Len(FilesOf(e))} : e \in Ecosystems}
EcoOfFile(f) == CHOOSE e \in Ecosystems : \E i \in 1..Len(FilesOf(e)) : FilesOf(e)[i] = f

\* A file: whether os.path.getsize exceeds 100 MB (line 191), and its lines.
\* Large: three records and one truncated line between the array brackets.
FileLarge ==
  [large |-> TRUE,
   lines |-> << <<LB>>, <<OBJ("a", <<"1">>), COMMA>>, <<BAD>>,
                <<OBJ("b", <<"1", "2">>), COMMA>>, <<OBJ("c", <<"2">>)>>, <<RB>> >>]
\* Small, one well-formed JSON array.
FileArray ==
  [large |-> FALSE,
   lines |-> << <<LB>>, <<OBJ("a", <<"2">>), COMMA>>, <<OBJ("d", <<"1">>)>>, <<RB>> >>]
\* Small, starts with '[' and ends with ']' but holds a truncated object.
FileBroken ==
  [large |-> FALSE,
   lines |-> << <<LB>>, <<OBJ("d", <<"2">>), COMMA>>, <<BAD>>, <<RB>> >>]
\* Small, the empty array.
FileEmpty == [large |-> FALSE, lines |-> << <<LB, RB>> >>]
\* Small, one object per line, with a bare comma, a truncated line and a
\* record without versions.
FileLines ==
  [large |-> FALSE,
   lines |-> << <<OBJ("e", <<"1">>), COMMA>>, <<COMMA>>, <<BAD>>,
                <<OBJ("f", <<>>)>>, <<OBJ("a", <<"3", "">>)>> >>]

\* Large, the opening bracket on the line of the first record.
FileOpen ==
  [large |-> TRUE,
   lines |-> << <<LB, OBJ("g", <<"1">>), COMMA>>, <<OBJ("a", <<"1">>), COMMA>>,
                <<OBJ("b", <<"2">>)>>, <<RB>> >>]
\* Small, cut off before its closing bracket, the opening bracket on the line
\* of the first record.
FileTruncated ==
  [large |-> FALSE,
   lines |-> << <<LB, OBJ("g", <<"1">>), COMMA>>, <<OBJ("d", <<"1">>), COMMA>>,
                <<COMMA>>, <<OBJ("e", <<"1">>)>> >>]
\* Small, one well-formed array of three batches: a record the database
\* rejects before a valid one; a blank name and a record without versions; a
\* name written a second time, with other versions, before a record whose
\* versions the database rejects.
FileMixed ==
  [large |-> FALSE,
   lines |-> << <<LB>>,
                <<OBJ("rej", <<"1">>), COMMA>>,
                <<OBJ(" g ", <<"1", " ", "longA", "longB">>), COMMA>>,
                <<OBJ(" ", <<"1">>), COMMA>>,
                <<OBJ("f", <<>>), COMMA>>,
                <<OBJ("g", <<"2">>), COMMA>>,
                <<OBJ("k", <<"1", "rej">>)>>,
                <<RB>> >>]

\* The files of the runs that exercise the parser and the database writer.
ParseTemplates(f) ==
  IF f = "npm1.json" THEN {FileOpen, FileBroken}
  ELSE IF f = "npm2.json" THEN {FileTruncated, FileArray}
  ELSE {FileMixed}

\* Large, four records between the array brackets: the auto-save of line 209
\* is reached twice, and no record is left over at the end of the file.
FileLong ==
  [large |-> TRUE,
   lines |-> << <<LB>>, <<OBJ("a", <<"1">>), COMMA>>, <<OBJ("b", <<"1">>), COMMA>>,
                <<OBJ("c", <<"1">>), COMMA>>, <<OBJ("d", <<"1">>)>>, <<RB>> >>]

\* The files of the runs that exercise the counters of the bookmark.
CountTemplates(f) ==
  IF f = "npm1.json" THEN {FileLong, FileLines, FileBroken}
  ELSE IF f = "npm2.json" THEN {FileEmpty, FileLarge}
  ELSE {FileLong, FileArray}

Templates(f) ==
  IF f = "npm1.json" THEN {FileLarge, FileBroken, FileEmpty, FileLines}
  ELSE IF f = "npm2.json" THEN {FileLarge, FileArray, FileEmpty}
  ELSE {FileLarge, FileArray}

\* ------------------------------------------------------------------- state
VARIABLES
  files,            \* input: the content of each JSON file (never changes)
  bookmarkFile,     \* BOOKMARK_FILE on disk: [state, data]
  db,               \* the committed rows of the package database
  pc,               \* where main() is; "idle" when no process runs
  bookmark,         \* the in-memory bookmark dict of main()
  ecoIdx,           \* position of main()'s loop over ecosystem_files
  fileIdx,          \* position of the loop over file_paths
  start_position,   \* parse_json_file_with_bookmark local
  line_num,         \* parse_json_file_with_bookmark local (0-based)
  packages,         \* parse_json_file_with_bookmark / result['packages']
  processed_count,  \* parse_json_file_with_bookmark local
  saved_count,      \* process_ecosystem_with_bookmark local; Unbound until assigned
  failed_files,     \* the files counted in failed_files (the code keeps the count)
  dbCaller,         \* which call of save_packages_to_db is running
  conn,             \* the open transaction's view of the database
  batchStart,       \* save_packages_to_db loop variable i
  sp_saved,         \* save_packages_to_db local saved_count
  runs,             \* history: invocations of main() so far
  dbFailures,       \* history: database errors so far
  committed,        \* history: places of the records written by a committed batch
  touched,          \* history: files handed to the parser in this run
  session,          \* history: the bookmark main() started this run with
  lastExit,         \* history: how the last run ended
  writable,         \* environment: BOOKMARK_FILE can be opened for writing
  failedSaves,      \* history: calls of save_bookmark that raised inside
  parsed            \* history: records the parser has produced in this run

ecoVars == <<files, bookmarkFile, db, pc, bookmark, ecoIdx, fileIdx, start_position,
             line_num, packages, processed_count, saved_count, failed_files, dbCaller,
             conn, batchStart, sp_saved, runs, dbFailures, committed, touched,
             session, lastExit, writable, failedSaves, parsed>>

\* npm_plus
VARIABLES
  registry,         \* input: what the npm registry holds for each name
  artifacts,        \* OUTPUT_DIR: file index -> the list in npm_data_NNNN.json
  error_log,        \* ERROR_LOG_FILE: its rows, the header first
  npc,              \* where npm_plus main() is; "idle" when no process runs
  processed_names_set,
  names_to_process,
  start_num,
  idx,              \* the chunk number of the loop of line 157
  results,          \* main() local
  fut,              \* the futures of the chunk: name -> state
  outcome,          \* the result or exception a finished future holds
  nruns,            \* history: invocations of main() so far
  submitted,        \* history: names submitted to the pool in this run
  artifactsAtStart, \* history: OUTPUT_DIR when this run started
  errorLogAtStart,  \* history: ERROR_LOG_FILE when this run started
  writtenBefore,    \* history: names held by an artifact when some run started
  attempts,         \* the HTTP requests SESSION.get made so far for each future
  nexit             \* history: how the last run of npm_plus ended

npmVars == <<registry, artifacts, error_log, npc, processed_names_set, names_to_process, start_num,
             idx, results, fut, outcome, nruns, submitted, artifactsAtStart,
             errorLogAtStart, writtenBefore, attempts, nexit>>

\* oss_craw, crawl_until_empty_parallel
VARIABLES
  site,             \* input: the components of each result page of the search
  concurrency,      \* argument of crawl_until_empty_parallel
  cpc,              \* where crawl_until_empty_parallel is; "idle" before the call
  next_page,
  stop,
  pages_done,
  all_links,
  submitted_pages,  \* the dict submitted: page of each future -> its state
  done_pages,       \* the set done: pages of the futures wait() returned, not yet handled
  initial_i,        \* iterations done of the loop of line 293
  page_files,       \* result/: the pages save_links_only wrote a file for
  combined,         \* result/: the combined file
  peak,             \* history: the most fetches in flight at once in this call
  start_page,       \* input: max(1, args.from_page)
  submit_log        \* history: the pages handed to ex.submit, in order

\* oss_craw, crawl_until_empty
VARIABLES
  spc,              \* where crawl_until_empty is; "idle" before the call
  max_pages,        \* argument of crawl_until_empty
  seq_i,            \* the loop variable i of line 193
  seq_links,        \* crawl_until_empty local all_links
  pages_crawled,
  last_page,
  requested,        \* history: the pages get_component_list was called for, in order
  seq_result        \* the dict crawl_until_empty returns

seqVars == <<spc, max_pages, seq_i, seq_links, pages_crawled, last_page, requested,
             seq_result>>

crawlVars == <<site, concurrency, cpc, next_page, stop, pages_done, all_links,
               submitted_pages, done_pages, initial_i, page_files, combined, peak,
               start_page, submit_log, seqVars>>

\* npm_plus, log_error called from several threads
VARIABLES
  log_lock,         \* log_lock: the thread that holds it, or "free"
  lpc,              \* where each thread is in log_error
  file_exists,      \* log_error local of each thread
  log_exists,       \* ERROR_LOG_FILE exists on disk
  log_started,      \* history: calls of log_error made so far
  log_calls         \* history: calls of log_error each thread has completed

logVars == <<log_lock, lpc, file_exists, log_exists, log_started, log_calls>>

\* npm.py
VARIABLES
  reg,              \* input: the package names the registry holds
  mpc,              \* where npm.py main() is; "idle" when no process runs
  start_key,        \* main() local start: the startkey of the next request, or None
  rows,             \* main() local: the rows of the page just fetched
  out_count,        \* OUT_FILE: how many lines hold each name
  out_last,         \* OUT_FILE: its last line; NoName when it has none
  names_runs,       \* history: invocations of main() so far
  fetch_errors      \* history: requests that raised so far

namesVars == <<reg, mpc, start_key, rows, out_count, out_last, names_runs, fetch_errors>>

\* ---------------------------------------------------------------- bookmark
\* The dict load_bookmark returns when there is nothing to load (lines 88-98;
\* the two timestamps are left out).  None is the string "None".
EmptyBookmark ==
  [completed_ecosystems |-> {}, completed_files |-> {},
   current_ecosystem |-> "None", current_file |-> "None",
   current_file_position |-> 0, total_processed |-> 0, total_saved |-> 0]

NoFile == [state |-> "absent", data |-> EmptyBookmark]
Written(b) == [state |-> "ok", data |-> b]

\* load_bookmark: the file's content when it exists and decodes.
load_bookmark(file) == IF file.state = "ok" THEN file.data ELSE EmptyBookmark

\* save_bookmark: the file after the call.
\* Mutant: a save that fails has already emptied the file.
save_bookmark_truncates(b) ==
  IF writable THEN Written(b) ELSE [state |-> "partial", data |-> EmptyBookmark]

\* save_bookmark (lines 100-111): the file as the call leaves it.  When the
\* file cannot be opened for writing, open raises, the except of line 110 logs
\* the error and the file is as before.
save_bookmark(b) == IF writable THEN Written(b) ELSE bookmarkFile

\* 1 when a call of save_bookmark made now fails, else 0.
FailedNow == IF writable THEN 0 ELSE 1

should_skip_ecosystem(ecosystem, b) == ecosystem \in b.completed_ecosystems

\* Mutant: the check of line 366 is lost, no file is ever skipped.
should_skip_file_never(file_path, b) == FALSE

should_skip_file(file_path, b) == file_path \in b.completed_files

\* saved_count before its first assignment in process_ecosystem_with_bookmark.
Unbound == -1

\* ---------------------------------------------------------------- database
EmptyDb == [packages |-> {}, versions |-> {}]

\* str.strip() on the names and versions of the files below: " " is made of
\* whitespace only, " g " is a name between two blanks.
Strip(str) == CASE str = " " -> "" [] str = " g " -> "g" [] OTHER -> str

\* Mutant: the check of line 292 looks at the name only.
ValidRecord_name_only(package) == Strip(package.Name) # ""

\* name.strip() and versions are both non-empty (line 292).
ValidRecord(package) == Strip(package.Name) # "" /\ package.Versions # <<>>

\* Names with a group and an artifact part (the maven branch, line 297).
MavenNames == {"g:a"}

\* A record is written: valid and, for maven, splittable.
Writable(package, ecosystem) ==
  ValidRecord(package) /\ (ecosystem = "maven" => Strip(package.Name) \in MavenNames)

\* str(version)[:500] of line 329: "longA" and "longB" are two versions of
\* more than 500 characters with the same first 500, "long".
Limit500(version) == IF version \in {"longA", "longB"} THEN "long" ELSE version

\* The versions line 331 keeps: version and str(version).strip() are non-empty.
NonBlank(versions) ==
  {versions[i] : i \in {j \in 1..Len(versions) : Strip(versions[j]) # ""}}

\* version_data of line 328: the non-blank versions, cut to 500 characters.
VersionData(versions) == {Limit500(x) : x \in NonBlank(versions)}

\* Strings a column of the database does not take: the statement that holds
\* one raises mysql.connector.Error (incorrect string value) and has no effect.
Rejected == {"rej"}

\* The INSERT of line 316 raises for this record.
InsertFails(package) == Strip(package.Name) \in Rejected

\* The executemany of line 336 raises for this record.
VersionsFail(package) == VersionData(package.Versions) \cap Rejected # {}

\* Mutant: the versions of the package are not deleted before the insert.
WritePackage_keeps_versions(d, ecosystem, package) ==
  IF ~Writable(package, ecosystem) \/ InsertFails(package) THEN d
  ELSE [packages |-> d.packages \cup {<<ecosystem, Strip(package.Name)>>},
        versions |-> d.versions \cup
                     (IF VersionsFail(package) THEN {}
                      ELSE {<<ecosystem, Strip(package.Name), x>> :
                              x \in VersionData(package.Versions)})]

\* Lines 287-342 for one record, inside the open transaction: nothing for a
\* record that is not valid (continue of lines 293 and 309); else the package
\* row is upserted, its versions are deleted and version_data is inserted.  A
\* statement that raises Error ends the record (except of line 340) and leaves
\* what the statements before it did.
WritePackage(d, ecosystem, package) ==
  IF ~Writable(package, ecosystem) \/ InsertFails(package) THEN d
  ELSE [packages |-> d.packages \cup {<<ecosystem, Strip(package.Name)>>},
        versions |-> {v \in d.versions : ~(v[1] = ecosystem /\ v[2] = Strip(package.Name))}
                     \cup (IF VersionsFail(package) THEN {}
                           ELSE {<<ecosystem, Strip(package.Name), x>> :
                                   x \in VersionData(package.Versions)})]

\* Mutant: a record whose write raised is counted like the others.
Saved_counts_failed(package, ecosystem) == Writable(package, ecosystem)

\* The record reaches line 338: it is valid and none of its statements raised.
Saved(package, ecosystem) ==
  Writable(package, ecosystem) /\ ~InsertFails(package) /\ ~VersionsFail(package)

RECURSIVE WriteBatch(_, _, _)
WriteBatch(d, ecosystem, batch) ==
  IF batch = <<>> THEN d
  ELSE WriteBatch(WritePackage(d, ecosystem, Head(batch)), ecosystem, Tail(batch))

\* saved_count += 1 for every record written (line 338).
SavedIn(batch, ecosystem) ==
  Cardinality({i \in 1..Len(batch) : Saved(batch[i], ecosystem)})

SrcWritten(batch, ecosystem) ==
  {batch[i].src : i \in {j \in 1..Len(batch) : Saved(batch[j], ecosystem)}}

Min(a, b) == IF a < b THEN a ELSE b

\* ------------------------------------------------- ecosystem_parser: steps
inputVars == <<files>>
histVars == <<runs, dbFailures, committed, touched, session, lastExit, parsed>>
parseVars == <<start_position, line_num, packages, processed_count>>
dbCallVars == <<dbCaller, conn, batchStart, sp_saved>>

CurEco == EcoOrder[ecoIdx]
CurFile == FilesOf(CurEco)[fileIdx]
CurLines == files[CurFile].lines

\* Everything but the input files: no bookmark file, an empty database, no
\* process.
InitProcess ==
  /\ bookmarkFile = NoFile
  /\ db = EmptyDb
  /\ pc = "idle"
  /\ bookmark = EmptyBookmark
  /\ ecoIdx = 1
  /\ fileIdx = 1
  /\ start_position = 0
  /\ line_num = 0
  /\ packages = <<>>
  /\ processed_count = 0
  /\ saved_count = Unbound
  /\ failed_files = {}
  /\ dbCaller = "none"
  /\ conn = EmptyDb
  /\ batchStart = 0
  /\ sp_saved = 0
  /\ runs = 0
  /\ dbFailures = 0
  /\ committed = {}
  /\ touched = {}
  /\ session = EmptyBookmark
  /\ lastExit = "none"
  /\ writable = TRUE
  /\ failedSaves = 0
  /\ parsed = 0

InitEco ==
  /\ files \in [FilePaths -> UNION {Templates(f) : f \in FilePaths}]
  /\ \A f \in FilePaths : files[f] \in Templates(f)
  /\ InitProcess

\* The locals of a process that is not running.
ResetProcess ==
  /\ bookmark' = EmptyBookmark
  /\ ecoIdx' = 1
  /\ fileIdx' = 1
  /\ start_position' = 0
  /\ line_num' = 0
  /\ packages' = <<>>
  /\ processed_count' = 0
  /\ saved_count' = Unbound
  /\ failed_files' = {}
  /\ dbCaller' = "none"
  /\ conn' = EmptyDb
  /\ batchStart' = 0
  /\ sp_saved' = 0
  /\ parsed' = 0

\* main(), lines 431-470: load the bookmark, offer to start over when there is
\* recorded progress, discover the files.
StartMain ==
  /\ pc = "idle"
  /\ runs < MaxRuns
  /\ LET loaded == load_bookmark(bookmarkFile)
     IN \E choice \in (IF loaded.total_processed > 0 THEN {"y", "n"} ELSE {"y"}) :
          /\ bookmark' = (IF choice = "n" THEN EmptyBookmark ELSE loaded)
          /\ bookmarkFile' = (IF choice = "n" THEN save_bookmark(EmptyBookmark)
                              ELSE bookmarkFile)
          /\ session' = bookmark'
          /\ failedSaves' = failedSaves + (IF choice = "n" THEN FailedNow ELSE 0)
  /\ runs' = runs + 1
  /\ pc' = "eco_loop"
  /\ ecoIdx' = 1
  /\ touched' = {}
  /\ lastExit' = "running"
  /\ UNCHANGED <<files, writable, db, fileIdx, parseVars, saved_count, failed_files, dbCallVars,
                 dbFailures, committed, parsed>>
  /\ UNCHANGED <<npmVars, crawlVars, logVars, namesVars>>

\* main() line 473 and process_ecosystem_with_bookmark lines 353-363.
NextEcosystem ==
  /\ pc = "eco_loop"
  /\ IF ecoIdx > Len(EcoOrder)
       THEN /\ pc' = "finish"
            /\ UNCHANGED <<ecoIdx, fileIdx, saved_count, failed_files>>
       ELSE IF should_skip_ecosystem(CurEco, bookmark)
         THEN /\ ecoIdx' = ecoIdx + 1
              /\ UNCHANGED <<pc, fileIdx, saved_count, failed_files>>
         ELSE /\ pc' = "file_loop"
              /\ fileIdx' = 1
              /\ saved_count' = Unbound
              /\ failed_files' = {}
              /\ UNCHANGED ecoIdx
  /\ UNCHANGED <<files, writable, failedSaves, bookmarkFile, db, bookmark, parseVars, dbCallVars, histVars>>
  /\ UNCHANGED <<npmVars, crawlVars, logVars, namesVars>>

\* Lines 365-372 and 173-187: the next file, skipped when completed, else the
\* parser is entered and picks its start position from the bookmark.
NextFile ==
  /\ pc = "file_loop"
  /\ IF fileIdx > Len(FilesOf(CurEco))
       THEN /\ pc' = "eco_done"
            /\ UNCHANGED <<fileIdx, parseVars, touched>>
       ELSE IF should_skip_file(CurFile, bookmark)
         THEN /\ fileIdx' = fileIdx + 1
              /\ UNCHANGED <<pc, parseVars, touched>>
         ELSE /\ start_position' =
                   (IF bookmark.current_file = CurFile /\ bookmark.current_ecosystem = CurEco
                      THEN bookmark.current_file_position ELSE 0)
              /\ line_num' = 0
              /\ packages' = <<>>
              /\ processed_count' = 0
              /\ touched' = touched \cup {CurFile}
              /\ pc' = (IF files[CurFile].large THEN "read" ELSE "read_small")
              /\ UNCHANGED fileIdx
  /\ UNCHANGED <<files, writable, failedSaves, bookmarkFile, db, bookmark, ecoIdx, saved_count, failed_files,
                 dbCallVars, runs, dbFailures, committed, session, lastExit, parsed>>
  /\ UNCHANGED <<npmVars, crawlVars, logVars, namesVars>>

\* Mutant: total_processed is set to the count of the file instead of being
\* raised by it.
AutoSaveUpdate_sets_total(b, ecosystem, file_path, position, count) ==
  [b EXCEPT !.current_ecosystem = ecosystem,
            !.current_file = file_path,
            !.current_file_position = position,
            !.total_processed = count]

\* bookmark.update(...) of lines 210-215.
AutoSaveUpdate(b, ecosystem, file_path, position, count) ==
  [b EXCEPT !.current_ecosystem = ecosystem,
            !.current_file = file_path,
            !.current_file_position = position,
            !.total_processed = b.total_processed + count]

\* One iteration of the loop of line 194 (large file), or its end.
ReadLine ==
  /\ pc = "read"
  /\ IF line_num >= Len(CurLines)
       THEN /\ pc' = "parsed"
            /\ UNCHANGED <<bookmark, parseVars, parsed>>
       ELSE IF line_num < start_position
         THEN /\ line_num' = line_num + 1
              /\ UNCHANGED <<pc, bookmark, start_position, packages, processed_count, parsed>>
         ELSE LET r == ParseLine(CurLines[line_num + 1], FALSE, CurFile, line_num)
              IN IF r[1]
                   THEN /\ packages' = Append(packages, r[2])
                        /\ processed_count' = processed_count + 1
                        /\ parsed' = parsed + 1
                        /\ IF (processed_count + 1) % AUTO_SAVE_INTERVAL = 0
                             THEN /\ bookmark' = AutoSaveUpdate(bookmark, CurEco, CurFile,
                                                   line_num + 1, processed_count + 1)
                                  /\ pc' = "auto_save_bookmark"
                                  /\ UNCHANGED line_num
                             ELSE /\ line_num' = line_num + 1
                                  /\ UNCHANGED <<pc, bookmark>>
                        /\ UNCHANGED start_position
                   ELSE /\ line_num' = line_num + 1
                        /\ UNCHANGED <<pc, bookmark, start_position, packages, processed_count, parsed>>
  /\ UNCHANGED <<files, writable, failedSaves, bookmarkFile, db, ecoIdx, fileIdx, saved_count, failed_files,
                 dbCallVars, runs, dbFailures, committed, touched, session, lastExit>>
  /\ UNCHANGED <<npmVars, crawlVars, logVars, namesVars>>

\* Line 216: save_bookmark(bookmark), then on to line 219.
AutoSaveBookmark ==
  /\ pc = "auto_save_bookmark"
  /\ bookmarkFile' = save_bookmark(bookmark)
  /\ failedSaves' = failedSaves + FailedNow
  /\ pc' = "db_connect"
  /\ dbCaller' = "auto"
  /\ UNCHANGED <<files, writable, db, bookmark, ecoIdx, fileIdx, parseVars, saved_count, failed_files,
                 conn, batchStart, sp_saved, histVars>>
  /\ UNCHANGED <<npmVars, crawlVars, logVars, namesVars>>

\* Lines 231-245 and 249-267: a small file is read and decoded in one go.
ReadSmall ==
  /\ pc = "read_small"
  /\ LET r == ParseSmall(CurLines, CurFile)
     IN /\ packages' = r.packages
        /\ parsed' = parsed + Len(r.packages)
        /\ pc' = (IF r.success THEN "parsed" ELSE "parse_failed")
  /\ UNCHANGED <<files, writable, failedSaves, bookmarkFile, db, bookmark, ecoIdx, fileIdx, start_position,
                 line_num, processed_count, saved_count, failed_files, dbCallVars,
                 runs, dbFailures, committed, touched, session, lastExit>>
  /\ UNCHANGED <<npmVars, crawlVars, logVars, namesVars>>

\* Lines 374-379: a successful parse; its packages go to the database.
HandleResult ==
  /\ pc = "parsed"
  /\ IF packages # <<>>
       THEN pc' = "db_connect" /\ dbCaller' = "final"
       ELSE pc' = "file_done" /\ UNCHANGED dbCaller
  /\ UNCHANGED <<files, writable, failedSaves, bookmarkFile, db, bookmark, ecoIdx, fileIdx, parseVars, saved_count,
                 failed_files, conn, batchStart, sp_saved, histVars>>
  /\ UNCHANGED <<npmVars, crawlVars, logVars, namesVars>>

\* Lines 391-393: success = False.
ParseFailed ==
  /\ pc = "parse_failed"
  /\ failed_files' = failed_files \cup {CurFile}
  /\ fileIdx' = fileIdx + 1
  /\ pc' = "file_loop"
  /\ UNCHANGED <<files, writable, failedSaves, bookmarkFile, db, bookmark, ecoIdx, parseVars, saved_count,
                 dbCallVars, histVars>>
  /\ UNCHANGED <<npmVars, crawlVars, logVars, namesVars>>

\* save_packages_to_db returns ret to the call that is running: line 220
\* (inside the parser, "auto") or line 377 (after the parse, "final").
DbReturn(ret) ==
  /\ conn' = EmptyDb
  /\ batchStart' = 0
  /\ sp_saved' = 0
  /\ dbCaller' = "none"
  /\ IF dbCaller = "auto"
       THEN /\ bookmark' = [bookmark EXCEPT !.total_saved = @ + ret]
            /\ packages' = <<>>
            /\ line_num' = line_num + 1
            /\ pc' = "read"
            /\ UNCHANGED saved_count
       ELSE /\ saved_count' = ret
            /\ pc' = "file_done"
            /\ UNCHANGED <<bookmark, packages, line_num>>

\* Lines 280-282: the connection is opened, or mysql raises Error, which the
\* except of line 346 swallows: the function returns 0.
DbConnect ==
  /\ pc = "db_connect"
  /\ \/ /\ conn' = db
        /\ batchStart' = 0
        /\ sp_saved' = 0
        /\ pc' = "db_batch"
        /\ UNCHANGED <<bookmark, packages, line_num, saved_count, dbCaller, dbFailures>>
     \/ /\ dbFailures < MaxDbFailures
        /\ dbFailures' = dbFailures + 1
        /\ DbReturn(0)
  /\ UNCHANGED <<files, writable, failedSaves, bookmarkFile, db, ecoIdx, fileIdx, start_position, processed_count,
                 failed_files, runs, committed, touched, session, lastExit, parsed>>
  /\ UNCHANGED <<npmVars, crawlVars, logVars, namesVars>>

\* Lines 284-344: one batch is written and committed; a failing commit raises
\* Error, the transaction is lost and the function returns the count so far.
DbBatch ==
  /\ pc = "db_batch"
  /\ LET batch == SubSeq(packages, batchStart + 1,
                         Min(batchStart + BATCH_SIZE, Len(packages)))
         written == WriteBatch(conn, CurEco, batch)
         n == sp_saved + SavedIn(batch, CurEco)
     IN \/ /\ db' = written
           /\ committed' = committed \cup SrcWritten(batch, CurEco)
           /\ IF batchStart + BATCH_SIZE >= Len(packages)
                THEN DbReturn(n)
                ELSE /\ conn' = written
                     /\ batchStart' = batchStart + BATCH_SIZE
                     /\ sp_saved' = n
                     /\ UNCHANGED <<pc, bookmark, packages, line_num, saved_count, dbCaller>>
           /\ UNCHANGED dbFailures
        \/ /\ dbFailures < MaxDbFailures
           /\ dbFailures' = dbFailures + 1
           /\ DbReturn(n)
           /\ UNCHANGED <<db, committed>>
  /\ UNCHANGED <<files, writable, failedSaves, bookmarkFile, ecoIdx, fileIdx, start_position, processed_count,
                 failed_files, runs, touched, session, lastExit, parsed>>
  /\ UNCHANGED <<npmVars, crawlVars, logVars, namesVars>>

\* Lines 381-390 and 400-402.  Reading saved_count before any file of this call
\* assigned it raises UnboundLocalError at line 386, after lines 384-385 ran:
\* the except of line 400 counts the file as failed and nothing is saved.
FileDone ==
  /\ pc = "file_done"
  /\ LET b1 == [bookmark EXCEPT !.completed_files = @ \cup {CurFile},
                                !.total_processed = @ + Len(packages)]
     IN IF saved_count = Unbound
          THEN /\ bookmark' = b1
               /\ failed_files' = failed_files \cup {CurFile}
               /\ UNCHANGED <<bookmarkFile, failedSaves>>
          ELSE /\ bookmark' = [b1 EXCEPT !.total_saved = @ + saved_count,
                                         !.current_file_position = 0]
               /\ bookmarkFile' = save_bookmark(bookmark')
               /\ failedSaves' = failedSaves + FailedNow
               /\ UNCHANGED failed_files
  /\ fileIdx' = fileIdx + 1
  /\ pc' = "file_loop"
  /\ UNCHANGED <<files, writable, db, ecoIdx, parseVars, saved_count, dbCallVars, histVars>>
  /\ UNCHANGED <<npmVars, crawlVars, logVars, namesVars>>

\* Lines 404-406: after the loop over the files, whatever happened in it.
EcoDone ==
  /\ pc = "eco_done"
  /\ bookmark' = [bookmark EXCEPT !.completed_ecosystems = @ \cup {CurEco}]
  /\ bookmarkFile' = save_bookmark(bookmark')
  /\ failedSaves' = failedSaves + FailedNow
  /\ ecoIdx' = ecoIdx + 1
  /\ pc' = "eco_loop"
  /\ UNCHANGED <<files, writable, db, fileIdx, parseVars, saved_count, failed_files, dbCallVars,
                 histVars>>
  /\ UNCHANGED <<npmVars, crawlVars, logVars, namesVars>>

\* Lines 485-488: the loop over the ecosystems ended without an interrupt.
Finish ==
  /\ pc = "finish"
  /\ bookmarkFile' = NoFile
  /\ pc' = "idle"
  /\ lastExit' = "completed"
  /\ ResetProcess
  /\ UNCHANGED <<files, writable, failedSaves, db, runs, dbFailures, committed, touched, session>>
  /\ UNCHANGED <<npmVars, crawlVars, logVars, namesVars>>

\* The positions inside the try of lines 370-393.
TryPcs == {"read", "read_small", "auto_save_bookmark", "db_connect", "db_batch",
           "parsed", "parse_failed", "file_done"}

\* Mutant: the handler of lines 395-399 re-raises without saving.
Interrupt_no_save ==
  /\ pc \notin {"idle"}
  /\ pc' = "idle"
  /\ lastExit' = "interrupted"
  /\ ResetProcess
  /\ UNCHANGED <<files, writable, failedSaves, bookmarkFile, db, runs, dbFailures, committed, touched, session>>
  /\ UNCHANGED <<npmVars, crawlVars, logVars, namesVars>>

\* KeyboardInterrupt.  Inside the try of line 370 the handler of lines 395-399
\* saves the bookmark and re-raises; main() returns at line 480.  Elsewhere the
\* interrupt reaches main() directly and nothing is saved.
Interrupt ==
  /\ pc \notin {"idle"}
  /\ bookmarkFile' = (IF pc \in TryPcs THEN save_bookmark(bookmark) ELSE bookmarkFile)
  /\ failedSaves' = failedSaves + (IF pc \in TryPcs THEN FailedNow ELSE 0)
  /\ pc' = "idle"
  /\ lastExit' = "interrupted"
  /\ ResetProcess
  /\ UNCHANGED <<files, writable, db, runs, dbFailures, committed, touched, session>>
  /\ UNCHANGED <<npmVars, crawlVars, logVars, namesVars>>

\* The process is killed: its memory and its open transaction are gone.
Crash ==
  /\ pc \notin {"idle"}
  /\ pc' = "idle"
  /\ lastExit' = "killed"
  /\ ResetProcess
  /\ UNCHANGED <<files, writable, failedSaves, bookmarkFile, db, runs, dbFailures, committed, touched, session>>
  /\ UNCHANGED <<npmVars, crawlVars, logVars, namesVars>>

\* The process is killed inside save_bookmark, between open(..., 'w'), which
\* truncates the file, and the end of json.dump (lines 106-107).
CrashInSave ==
  /\ writable
  /\ \/ pc \in {"auto_save_bookmark", "eco_done"}
     \/ pc = "file_done" /\ saved_count # Unbound
  /\ bookmarkFile' = [state |-> "partial", data |-> EmptyBookmark]
  /\ pc' = "idle"
  /\ lastExit' = "killed"
  /\ ResetProcess
  /\ UNCHANGED <<files, writable, failedSaves, db, runs, dbFailures, committed, touched, session>>
  /\ UNCHANGED <<npmVars, crawlVars, logVars, namesVars>>

\* The environment: BOOKMARK_FILE stops being writable (its permissions or
\* its directory change), so that open(BOOKMARK_FILE, 'w') of line 106 raises.
Unwritable ==
  /\ writable
  /\ failedSaves < MaxSaveFailures
  /\ writable' = FALSE
  /\ UNCHANGED <<files, bookmarkFile, db, pc, bookmark, ecoIdx, fileIdx, parseVars,
                 saved_count, failed_files, dbCallVars, histVars, failedSaves>>
  /\ UNCHANGED <<npmVars, crawlVars, logVars, namesVars>>

\* The environment: BOOKMARK_FILE is writable again.
WritableAgain ==
  /\ ~writable
  /\ writable' = TRUE
  /\ UNCHANGED <<files, bookmarkFile, db, pc, bookmark, ecoIdx, fileIdx, parseVars,
                 saved_count, failed_files, dbCallVars, histVars, failedSaves>>
  /\ UNCHANGED <<npmVars, crawlVars, logVars, namesVars>>

NextEco ==
  \/ StartMain
  \/ NextEcosystem
  \/ NextFile
  \/ ReadLine
  \/ AutoSaveBookmark
  \/ ReadSmall
  \/ HandleResult
  \/ ParseFailed
  \/ DbConnect
  \/ DbBatch
  \/ FileDone
  \/ EcoDone
  \/ Finish
  \/ Interrupt
  \/ Crash
  \/ CrashInSave

\* ================================================================ npm_plus
\* npm_plus.py:21 (40 in the source, scaled) and :22 (100000, scaled): a chunk
\* holds more names than there are workers, as in the source.
MAX_WORKERS == 2
CHUNK_SIZE == 3
\* Invocations of npm_plus main() in one behaviour.
MaxNpmRuns == 2

\* load_names_from_file(NAMES_FILE): the stripped, non-empty lines.
AllNames == <<"p1", "p2", "p3", "p4">>

\* What fetch_meta can end with (lines 106-124 and the excepts of 175-180).
Outcomes == {"ok", "not_found", "no_latest", "http_error", "request_exception"}

\* Retry(total=5, ...) of line 33 (5 in the source, scaled).
RETRY_TOTAL == 2

\* What the registry holds for a name: a package ("ok"), nothing (it answers
\* 404), a package without a latest dist-tag, a refusal (a status outside
\* status_forcelist, e.g. 403), a server that keeps failing ("down": 429, 500,
\* 502, 504 or no connection), or one that fails now and then ("flaky").
Registries ==
  {[n \in {"p1", "p2", "p3", "p4"} |->
      CASE n = "p1" -> "missing" [] n = "p2" -> "ok" [] n = "p3" -> "down" [] OTHER -> "flaky"],
   [n \in {"p1", "p2", "p3", "p4"} |->
      CASE n = "p1" -> "ok" [] n = "p2" -> "no_latest" [] n = "p3" -> "forbidden" [] OTHER -> "ok"],
   [n \in {"p1", "p2", "p3", "p4"} |->
      CASE n = "p1" -> "flaky" [] n = "p2" -> "missing" [] n = "p3" -> "ok" [] OTHER -> "down"]}

\* The answers one request for a name of that kind can get.
Responses(kind) ==
  CASE kind = "ok" -> {"ok"}
    [] kind = "missing" -> {"not_found"}
    [] kind = "no_latest" -> {"no_latest"}
    [] kind = "forbidden" -> {"http_error"}
    [] kind = "down" -> {"transient_status", "connection_error"}
    [] OTHER -> {"ok", "transient_status"}

\* Mutant: every answer but a package is retried.
IsTransient_any_failure(r) == r # "ok"

\* The answers urllib3 retries: a status of status_forcelist (line 33) or a
\* connection error.
IsTransient(r) == r \in {"transient_status", "connection_error"}

\* Mutant: the retry counter is never exhausted.
RetriesLeft_always(made) == TRUE

\* Retry.total: with made requests sent so far (the first one included), one
\* more is sent while fewer than total retries were used.
RetriesLeft(made) == made - 1 < RETRY_TOTAL

Item(n, e) == [name |-> n, error |-> e]
HeaderRow == [package_name |-> "package_name", error_type |-> "error_type"]
Row(n, t) == [package_name |-> n, error_type |-> t]

\* The names of a list of items that load_processed_names takes (line 72).
NamesOf(data) == {data[i].name : i \in {j \in 1..Len(data) : ~data[j].error}}

\* Lines 81-86: the header is skipped, the second column of each row is taken.
LoggedNames(log) == {log[i].package_name : i \in 2..Len(log)}

\* Mutant: the error log is not read (step 2 of the function is lost).
load_processed_names_artifacts_only(arts, log) ==
  UNION {NamesOf(arts[k]) : k \in DOMAIN arts}

\* load_processed_names (lines 58-92).
load_processed_names(arts, log) ==
  UNION {NamesOf(arts[k]) : k \in DOMAIN arts} \cup LoggedNames(log)

\* The list comprehension of line 147.
RECURSIVE Filter(_, _)
Filter(names, done) ==
  IF names = <<>> THEN <<>>
  ELSE (IF Head(names) \in done THEN <<>> ELSE <<Head(names)>>) \o Filter(Tail(names), done)

\* chunks[idx - 1] of line 153.
Chunk(names, i) ==
  SubSeq(names, (i - 1) * CHUNK_SIZE + 1, Min(i * CHUNK_SIZE, Len(names)))
NumChunks(names) == (Len(names) + CHUNK_SIZE - 1) \div CHUNK_SIZE

\* Line 132.
FileIndex(index, start) == (start \div CHUNK_SIZE) + index

\* save_chunk_json (lines 126-139): nothing for an empty list, else the file of
\* that index is opened with 'w' and holds data afterwards.
save_chunk_json(arts, data, index, start) ==
  IF data = <<>> THEN arts
  ELSE [k \in DOMAIN arts \cup {FileIndex(index, start)} |->
          IF k = FileIndex(index, start) THEN data ELSE arts[k]]

\* Mutant: the row is not written.
log_error_drops(log, pkg_name, error_type) == log

\* log_error (lines 43-55), under log_lock: the header when the file is new,
\* then one row.
log_error(log, pkg_name, error_type) ==
  (IF log = <<>> THEN <<HeaderRow>> ELSE log) \o <<Row(pkg_name, error_type)>>

\* OUTPUT_DIR before the first run: empty, or one file of an earlier version of
\* the program that still wrote error objects into its output.
InitialArtifacts ==
  {<<>>, <<>> @@ (0 :> <<Item("p1", TRUE), Item("p2", FALSE)>>)}

NoFutures == [n \in {} |-> "none"]

InitNpm ==
  /\ registry \in Registries
  /\ artifacts \in InitialArtifacts
  /\ error_log = <<>>
  /\ npc = "idle"
  /\ processed_names_set = {}
  /\ names_to_process = <<>>
  /\ start_num = 0
  /\ idx = 1
  /\ results = <<>>
  /\ fut = NoFutures
  /\ outcome = NoFutures
  /\ nruns = 0
  /\ submitted = {}
  /\ artifactsAtStart = <<>>
  /\ errorLogAtStart = <<>>
  /\ writtenBefore = {}
  /\ attempts = NoFutures
  /\ nexit = "none"

NpmReset ==
  /\ processed_names_set' = {}
  /\ names_to_process' = <<>>
  /\ start_num' = 0
  /\ idx' = 1
  /\ results' = <<>>
  /\ fut' = NoFutures
  /\ outcome' = NoFutures
  /\ attempts' = NoFutures

\* main(), lines 142-155.
NpmStart ==
  /\ npc = "idle"
  /\ nruns < MaxNpmRuns
  /\ nruns' = nruns + 1
  /\ LET done == load_processed_names(artifacts, error_log)
         todo == Filter(AllNames, done)
     IN /\ processed_names_set' = done
        /\ names_to_process' = todo
        /\ start_num' = Cardinality(done)
        /\ npc' = (IF todo = <<>> THEN "idle" ELSE "submit")
        /\ nexit' = (IF todo = <<>> THEN "returned" ELSE "running")
  /\ idx' = 1
  /\ results' = <<>>
  /\ fut' = NoFutures
  /\ outcome' = NoFutures
  /\ attempts' = NoFutures
  /\ submitted' = {}
  /\ artifactsAtStart' = artifacts
  /\ errorLogAtStart' = error_log
  /\ writtenBefore' = writtenBefore \cup
        UNION {{artifacts[k][i].name : i \in 1..Len(artifacts[k])} : k \in DOMAIN artifacts}
  /\ UNCHANGED <<artifacts, error_log>>
  /\ UNCHANGED <<registry, ecoVars, crawlVars, logVars, namesVars>>

\* Lines 157-163: the next chunk; every name of it is submitted at once.
NpmSubmit ==
  /\ npc = "submit"
  /\ IF idx > NumChunks(names_to_process)
       THEN /\ npc' = "idle"
            /\ nexit' = "returned"
            /\ NpmReset
            /\ UNCHANGED submitted
       ELSE LET chunk_names == Chunk(names_to_process, idx)
                S == {chunk_names[i] : i \in 1..Len(chunk_names)}
            IN /\ fut' = [n \in S |-> "queued"]
               /\ outcome' = [n \in S |-> "none"]
               /\ attempts' = [n \in S |-> 0]
               /\ results' = <<>>
               /\ submitted' = submitted \cup S
               /\ npc' = "collect"
               /\ UNCHANGED <<processed_names_set, names_to_process, start_num, idx, nexit>>
  /\ UNCHANGED <<artifacts, error_log, nruns, artifactsAtStart, errorLogAtStart,
                 writtenBefore>>
  /\ UNCHANGED <<registry, ecoVars, crawlVars, logVars, namesVars>>

Running == {n \in DOMAIN fut : fut[n] = "running"}

\* The pool's work queue is first in, first out: the next future a free
\* worker takes is the earliest submitted one still queued.
FirstQueued(n) ==
  LET chunk_names == Chunk(names_to_process, idx)
  IN \E i \in 1..Len(chunk_names) :
       /\ chunk_names[i] = n
       /\ fut[n] = "queued"
       /\ \A j \in 1..(i - 1) : fut[chunk_names[j]] # "queued"

\* A worker thread of the pool starts fetch_meta(n).
WorkerStart(n) ==
  /\ npc \in {"collect", "shutdown"}
  /\ FirstQueued(n)
  /\ Cardinality(Running) < MAX_WORKERS
  /\ fut' = [fut EXCEPT ![n] = "running"]
  /\ UNCHANGED <<artifacts, error_log, npc, processed_names_set, names_to_process,
                 start_num, idx, results, outcome, nruns, submitted, artifactsAtStart,
                 errorLogAtStart, writtenBefore, attempts, nexit>>
  /\ UNCHANGED <<registry, ecoVars, crawlVars, logVars, namesVars>>

\* SESSION.get of line 109 sends one request for fetch_meta(n) and gets the
\* answer r.  A transient answer is retried by the adapter while the retry
\* counter allows; after that RetryError or ConnectionError is raised, both
\* RequestException.  Any other answer ends fetch_meta (lines 110-124).
Request(n, r) ==
  /\ npc \in {"collect", "shutdown"}
  /\ n \in DOMAIN fut
  /\ fut[n] = "running"
  /\ r \in Responses(registry[n])
  /\ attempts' = [attempts EXCEPT ![n] = @ + 1]
  /\ IF IsTransient(r) /\ RetriesLeft(attempts[n] + 1)
       THEN UNCHANGED <<fut, outcome>>
       ELSE /\ fut' = [fut EXCEPT ![n] = "done"]
            /\ outcome' = [outcome EXCEPT ![n] =
                             IF IsTransient(r) THEN "request_exception" ELSE r]
  /\ UNCHANGED <<artifacts, error_log, npc, processed_names_set, names_to_process,
                 start_num, idx, results, nruns, submitted, artifactsAtStart,
                 errorLogAtStart, writtenBefore, nexit>>
  /\ UNCHANGED <<registry, ecoVars, crawlVars, logVars, namesVars>>

\* The error_type log_error is called with for an outcome (lines 171-180).
ErrorType(o) ==
  CASE o = "not_found" -> "Package not found"
    [] o = "no_latest" -> "No latest version found"
    [] o = "http_error" -> "HTTP Error"
    [] OTHER -> "Request Exception"

\* One iteration of the as_completed loop (lines 166-180).
Consume(n) ==
  /\ npc = "collect"
  /\ n \in DOMAIN fut
  /\ fut[n] = "done"
  /\ fut' = [fut EXCEPT ![n] = "consumed"]
  /\ IF outcome[n] = "ok"
       THEN results' = Append(results, Item(n, FALSE)) /\ UNCHANGED error_log
       ELSE error_log' = log_error(error_log, n, ErrorType(outcome[n])) /\ UNCHANGED results
  /\ UNCHANGED <<artifacts, npc, processed_names_set, names_to_process, start_num, idx,
                 outcome, nruns, submitted, artifactsAtStart, errorLogAtStart, writtenBefore,
                 attempts, nexit>>
  /\ UNCHANGED <<registry, ecoVars, crawlVars, logVars, namesVars>>

\* Lines 186-188: every future of the chunk was consumed.
ChunkEnd ==
  /\ npc = "collect"
  /\ \A n \in DOMAIN fut : fut[n] = "consumed"
  /\ artifacts' = save_chunk_json(artifacts, results, idx, start_num)
  /\ idx' = idx + 1
  /\ results' = <<>>
  /\ fut' = NoFutures
  /\ outcome' = NoFutures
  /\ attempts' = NoFutures
  /\ npc' = "submit"
  /\ UNCHANGED <<error_log, processed_names_set, names_to_process, start_num, nruns,
                 submitted, artifactsAtStart, errorLogAtStart, writtenBefore, nexit>>
  /\ UNCHANGED <<registry, ecoVars, crawlVars, logVars, namesVars>>

\* KeyboardInterrupt in the main thread while the chunk is collected (lines
\* 166-180): the exception leaves the with block of line 162, whose exit calls
\* pool.shutdown(wait=True).  Nothing is cancelled: the workers go on with the
\* futures still queued, and the main thread waits for them.
NpmInterrupt ==
  /\ npc = "collect"
  /\ npc' = "shutdown"
  /\ UNCHANGED <<artifacts, error_log, processed_names_set, names_to_process, start_num,
                 idx, results, fut, outcome, nruns, submitted, artifactsAtStart,
                 errorLogAtStart, writtenBefore, attempts, nexit>>
  /\ UNCHANGED <<registry, ecoVars, crawlVars, logVars, namesVars>>

\* Lines 181-185, once every worker has ended: the results consumed so far
\* are saved and main() returns.
InterruptReturn ==
  /\ npc = "shutdown"
  /\ \A n \in DOMAIN fut : fut[n] \in {"done", "consumed"}
  /\ artifacts' = save_chunk_json(artifacts, results, idx, start_num)
  /\ npc' = "idle"
  /\ nexit' = "interrupted"
  /\ NpmReset
  /\ UNCHANGED <<error_log, nruns, submitted, artifactsAtStart, errorLogAtStart,
                 writtenBefore>>
  /\ UNCHANGED <<registry, ecoVars, crawlVars, logVars, namesVars>>

\* The process is killed.
NpmCrash ==
  /\ npc # "idle"
  /\ npc' = "idle"
  /\ nexit' = "killed"
  /\ NpmReset
  /\ UNCHANGED <<artifacts, error_log, nruns, submitted, artifactsAtStart,
                 errorLogAtStart, writtenBefore>>
  /\ UNCHANGED <<registry, ecoVars, crawlVars, logVars, namesVars>>

NextNpm ==
  \/ NpmStart
  \/ NpmSubmit
  \/ \E n \in DOMAIN fut : WorkerStart(n)
  \/ \E n \in DOMAIN fut, r \in Outcomes \cup {"transient_status", "connection_error"} :
       Request(n, r)
  \/ \E n \in DOMAIN fut : Consume(n)
  \/ ChunkEnd
  \/ NpmInterrupt
  \/ InterruptReturn
  \/ NpmCrash

\* ================================================================ oss_craw
\* Values of --concurrency tried.
MaxConcurrency == 2
\* Values of --from-page tried.
MaxStartPage == 2
\* Values of --max-pages tried, from 0.
MaxPages == 3

\* The components of a result page: the link of each, "" when it has none.
PageA == <<"l1", "">>
PageB == <<"l1", "l2">>
PageC == <<"l3">>

\* The result pages of the search, from page 1 on; every further page is empty.
Sites == {<<>>, <<PageA>>, <<PageA, PageB>>, <<PageA, <<>>, PageC>>, <<PageA, PageB, PageC>>}

\* get_component_list (lines 34-66) for page_no.
get_component_list(page_no) ==
  IF page_no \in 1..Len(site) THEN site[page_no] ELSE <<>>

\* Line 308: the links of the components that have one.
page_links(comps) == {comps[i] : i \in {j \in 1..Len(comps) : comps[j] # ""}}

NoPages == [p \in {} |-> "none"]
NoCombined == [written |-> FALSE, end_page |-> 0, links |-> {}]
NoResult == [returned |-> FALSE, start_page |-> 0, last_page |-> 0, pages_crawled |-> 0,
             links |-> {}]

\* crawl_until_empty before its call.
InitSeq ==
  /\ spc = "idle"
  /\ max_pages = 0
  /\ seq_i = 0
  /\ seq_links = {}
  /\ pages_crawled = 0
  /\ last_page = 0
  /\ requested = <<>>
  /\ seq_result = NoResult

InitCrawl ==
  /\ site \in Sites
  /\ concurrency = 0
  /\ cpc = "idle"
  /\ next_page = 0
  /\ stop = FALSE
  /\ pages_done = {}
  /\ all_links = {}
  /\ submitted_pages = NoPages
  /\ done_pages = {}
  /\ initial_i = 0
  /\ page_files = {}
  /\ combined = NoCombined
  /\ peak = 0
  /\ start_page \in 1..MaxStartPage
  /\ submit_log = <<>>
  /\ InitSeq

\* Mutant: the loop of line 293 makes one submission too many.
range_one_more(k) == k + 1

\* range(concurrency) of line 293: the number of initial submissions.
range(k) == IF k > 0 THEN k ELSE 0

\* ex.submit(fetch_one, next_page) of lines 294-296 and 316-318.
Submit(pages) == pages @@ (next_page :> "pending")

\* The fetches in flight: the futures submitted and not yet completed.
InFlight(pages) == {p \in DOMAIN pages : pages[p] = "pending"}

Max(a, b) == IF a > b THEN a ELSE b

\* main() lines 373-376 and lines 276-281: the call, with
\* concurrency = max(1, args.concurrency).
CrawlStart(k) ==
  /\ cpc = "idle"
  /\ concurrency' = k
  /\ next_page' = start_page
  /\ stop' = FALSE
  /\ pages_done' = {}
  /\ all_links' = {}
  /\ submitted_pages' = NoPages
  /\ initial_i' = 0
  /\ cpc' = "initial"
  /\ peak' = 0
  /\ submit_log' = <<>>
  /\ UNCHANGED <<site, start_page, done_pages, page_files, combined>>
  /\ UNCHANGED <<seqVars, ecoVars, npmVars, logVars, namesVars>>

\* One iteration of the loop of lines 293-296, or its end.
InitialSubmit ==
  /\ cpc = "initial"
  /\ IF initial_i < range(concurrency)
       THEN /\ submitted_pages' = Submit(submitted_pages)
            /\ submit_log' = Append(submit_log, next_page)
            /\ next_page' = next_page + 1
            /\ initial_i' = initial_i + 1
            /\ UNCHANGED cpc
       ELSE /\ cpc' = "wait"
            /\ UNCHANGED <<submitted_pages, submit_log, next_page, initial_i>>
  /\ peak' = Max(peak, Cardinality(InFlight(submitted_pages')))
  /\ UNCHANGED <<site, start_page, concurrency, stop, pages_done, all_links, done_pages, page_files, combined>>
  /\ UNCHANGED <<seqVars, ecoVars, npmVars, logVars, namesVars>>

\* A worker thread ends fetch_one(p) (lines 283-289): the future completes.
FetchComplete(p) ==
  /\ cpc \in {"initial", "wait", "for_done"}
  /\ p \in DOMAIN submitted_pages
  /\ submitted_pages[p] = "pending"
  /\ submitted_pages' = [submitted_pages EXCEPT ![p] = "completed"]
  /\ UNCHANGED <<site, start_page, submit_log, concurrency, cpc, next_page, stop, pages_done,
                 all_links, done_pages, initial_i, page_files, combined, peak>>
  /\ UNCHANGED <<seqVars, ecoVars, npmVars, logVars, namesVars>>

\* Mutant: the loop of line 298 also ends as soon as stop is set, leaving the
\* fetches still in flight behind.
Wait_leaves_on_stop ==
  /\ cpc = "wait"
  /\ LET completed == {p \in DOMAIN submitted_pages : submitted_pages[p] = "completed"}
     IN IF DOMAIN submitted_pages = {} \/ stop
          THEN cpc' = "combine" /\ UNCHANGED done_pages
          ELSE /\ completed # {}
               /\ done_pages' = completed
               /\ cpc' = "for_done"
  /\ UNCHANGED <<site, start_page, submit_log, concurrency, next_page, stop, pages_done,
                 all_links, submitted_pages, initial_i, page_files, combined, peak>>
  /\ UNCHANGED <<seqVars, ecoVars, npmVars, logVars, namesVars>>

\* Lines 298-299: the loop ends when submitted is empty; else wait returns the
\* futures completed by now, once there is one.
Wait ==
  /\ cpc = "wait"
  /\ LET completed == {p \in DOMAIN submitted_pages : submitted_pages[p] = "completed"}
     IN IF DOMAIN submitted_pages = {}
          THEN cpc' = "combine" /\ UNCHANGED done_pages
          ELSE /\ completed # {}
               /\ done_pages' = completed
               /\ cpc' = "for_done"
  /\ UNCHANGED <<site, start_page, submit_log, concurrency, next_page, stop, pages_done,
                 all_links, submitted_pages, initial_i, page_files, combined, peak>>
  /\ UNCHANGED <<seqVars, ecoVars, npmVars, logVars, namesVars>>

\* Mutant: stop follows the last page handled, a non-empty page clears it.
StopAfter_forgets(comps) == comps = <<>>

\* Lines 305-312: stop once the page handled is empty; it is never cleared.
StopAfter(comps) == stop \/ comps = <<>>

\* One iteration of the loop of lines 300-318, for the future of page p; the
\* set done is iterated in no particular order.
HandleDone(p) ==
  /\ cpc = "for_done"
  /\ p \in done_pages
  /\ LET comps == get_component_list(p)
         stop1 == StopAfter(comps)
         popped == [q \in DOMAIN submitted_pages \ {p} |-> submitted_pages[q]]
     IN /\ pages_done' = pages_done \cup {p}
        /\ IF comps # <<>>
             THEN /\ page_files' = page_files \cup {p}
                  /\ all_links' = all_links \cup page_links(comps)
             ELSE UNCHANGED <<page_files, all_links>>
        /\ stop' = stop1
        /\ IF ~stop1
             THEN /\ submitted_pages' = Submit(popped)
                  /\ submit_log' = Append(submit_log, next_page)
                  /\ next_page' = next_page + 1
             ELSE /\ submitted_pages' = popped
                  /\ UNCHANGED <<next_page, submit_log>>
  /\ done_pages' = done_pages \ {p}
  /\ cpc' = (IF done_pages' = {} THEN "wait" ELSE "for_done")
  /\ peak' = Max(peak, Cardinality(InFlight(submitted_pages')))
  /\ UNCHANGED <<site, start_page, concurrency, initial_i, combined>>
  /\ UNCHANGED <<seqVars, ecoVars, npmVars, logVars, namesVars>>

\* Lines 320-334: the combined file is written and the method returns.
Combine ==
  /\ cpc = "combine"
  /\ combined' = [written |-> TRUE,
                  end_page |-> (IF pages_done = {} THEN start_page - 1
                                ELSE CHOOSE m \in pages_done : \A q \in pages_done : q <= m),
                  links |-> all_links]
  /\ cpc' = "returned"
  /\ UNCHANGED <<site, start_page, submit_log, concurrency, next_page, stop, pages_done,
                 all_links, submitted_pages, done_pages, initial_i, page_files, peak>>
  /\ UNCHANGED <<seqVars, ecoVars, npmVars, logVars, namesVars>>

NextCrawl ==
  \/ \E k \in 1..MaxConcurrency : CrawlStart(k)
  \/ InitialSubmit
  \/ \E p \in DOMAIN submitted_pages : FetchComplete(p)
  \/ Wait
  \/ \E p \in done_pages : HandleDone(p)
  \/ Combine

\* ------------------------------------------------- oss_craw: crawl_until_empty
\* Mutant: the loop steps over every other page.
PageAt_skips(k) == start_page + 2 * k

\* Line 194: the page of iteration i of the loop of line 193.
PageAt(k) == start_page + k

\* main() lines 377-380 and lines 189-192: the call.
SeqStart(m) ==
  /\ spc = "idle"
  /\ max_pages' = m
  /\ seq_i' = 0
  /\ seq_links' = {}
  /\ pages_crawled' = 0
  /\ last_page' = start_page - 1
  /\ requested' = <<>>
  /\ spc' = "loop"
  /\ UNCHANGED seq_result
  /\ UNCHANGED <<site, concurrency, cpc, next_page, stop, pages_done, all_links,
                 submitted_pages, done_pages, initial_i, page_files, combined, peak,
                 start_page, submit_log>>
  /\ UNCHANGED <<ecoVars, npmVars, logVars, namesVars>>

\* One iteration of the loop of lines 193-208, or its end: the page is
\* requested; an empty page breaks out of the loop, any other page has its
\* file written by save_links_only and its links added.
SeqPage ==
  /\ spc = "loop"
  /\ IF seq_i >= range(max_pages)
       THEN /\ spc' = "combine"
            /\ UNCHANGED <<seq_i, seq_links, pages_crawled, last_page, requested, page_files>>
       ELSE LET p == PageAt(seq_i)
                comps == get_component_list(p)
            IN /\ requested' = Append(requested, p)
               /\ IF comps = <<>>
                    THEN /\ spc' = "combine"
                         /\ UNCHANGED <<seq_i, seq_links, pages_crawled, last_page, page_files>>
                    ELSE /\ page_files' = page_files \cup {p}
                         /\ seq_links' = seq_links \cup page_links(comps)
                         /\ pages_crawled' = pages_crawled + 1
                         /\ last_page' = p
                         /\ seq_i' = seq_i + 1
                         /\ UNCHANGED spc
  /\ UNCHANGED <<max_pages, seq_result>>
  /\ UNCHANGED <<site, concurrency, cpc, next_page, stop, pages_done, all_links,
                 submitted_pages, done_pages, initial_i, combined, peak,
                 start_page, submit_log>>
  /\ UNCHANGED <<ecoVars, npmVars, logVars, namesVars>>

\* Lines 210-225: the combined file is written and the method returns.
SeqCombine ==
  /\ spc = "combine"
  /\ seq_result' = [returned |-> TRUE, start_page |-> start_page, last_page |-> last_page,
                    pages_crawled |-> pages_crawled, links |-> seq_links]
  /\ spc' = "returned"
  /\ UNCHANGED <<max_pages, seq_i, seq_links, pages_crawled, last_page, requested>>
  /\ UNCHANGED <<site, concurrency, cpc, next_page, stop, pages_done, all_links,
                 submitted_pages, done_pages, initial_i, page_files, combined, peak,
                 start_page, submit_log>>
  /\ UNCHANGED <<ecoVars, npmVars, logVars, namesVars>>

NextSeq ==
  \/ \E m \in 0..MaxPages : SeqStart(m)
  \/ SeqPage
  \/ SeqCombine

\* ============================================ npm_plus: concurrent log_error
\* Calls of log_error in one behaviour.
MaxLogCalls == 3

\* The threads that call log_error; each logs the package it fetched.
LogThreads == {"p1", "p2", "p3"}

InitLog ==
  /\ log_lock = "free"
  /\ lpc = [t \in LogThreads |-> "idle"]
  /\ file_exists = [t \in LogThreads |-> FALSE]
  /\ log_exists = FALSE
  /\ log_started = 0
  /\ log_calls = [t \in LogThreads |-> 0]

npmRest == <<registry, artifacts, npc, processed_names_set, names_to_process, start_num,
             idx, results, fut, outcome, nruns, submitted, artifactsAtStart,
             errorLogAtStart, writtenBefore, attempts, nexit>>

\* Thread t calls log_error(t, "HTTP Error") and reaches the with of line 45.
LogCall(t) ==
  /\ lpc[t] = "idle"
  /\ log_started < MaxLogCalls
  /\ log_started' = log_started + 1
  /\ lpc' = [lpc EXCEPT ![t] = "acquire"]
  /\ UNCHANGED <<log_lock, file_exists, log_exists, log_calls, error_log>>
  /\ UNCHANGED <<npmRest, ecoVars, crawlVars, namesVars>>

\* Mutant: log_lock does not exclude anyone.
CanAcquire_always == TRUE

\* threading.Lock: acquire returns only when no thread holds the lock.
CanAcquire == log_lock = "free"

\* Line 45: with log_lock.
LogAcquire(t) ==
  /\ lpc[t] = "acquire"
  /\ CanAcquire
  /\ log_lock' = t
  /\ lpc' = [lpc EXCEPT ![t] = "check"]
  /\ UNCHANGED <<file_exists, log_exists, log_started, log_calls, error_log>>
  /\ UNCHANGED <<npmRest, ecoVars, crawlVars, namesVars>>

\* Line 47: file_exists = os.path.exists(ERROR_LOG_FILE).
LogCheck(t) ==
  /\ lpc[t] = "check"
  /\ file_exists' = [file_exists EXCEPT ![t] = log_exists]
  /\ lpc' = [lpc EXCEPT ![t] = "open"]
  /\ UNCHANGED <<log_lock, log_exists, log_started, log_calls, error_log>>
  /\ UNCHANGED <<npmRest, ecoVars, crawlVars, namesVars>>

\* Line 49: open(ERROR_LOG_FILE, 'a') creates the file when there is none.
LogOpen(t) ==
  /\ lpc[t] = "open"
  /\ log_exists' = TRUE
  /\ lpc' = [lpc EXCEPT ![t] = "header"]
  /\ UNCHANGED <<log_lock, file_exists, log_started, log_calls, error_log>>
  /\ UNCHANGED <<npmRest, ecoVars, crawlVars, namesVars>>

\* Lines 51-52: the header, when the file did not exist.
LogHeader(t) ==
  /\ lpc[t] = "header"
  /\ error_log' = (IF file_exists[t] THEN error_log ELSE Append(error_log, HeaderRow))
  /\ lpc' = [lpc EXCEPT ![t] = "row"]
  /\ UNCHANGED <<log_lock, file_exists, log_exists, log_started, log_calls>>
  /\ UNCHANGED <<npmRest, ecoVars, crawlVars, namesVars>>

\* Lines 54-55: the data row.
LogRow(t) ==
  /\ lpc[t] = "row"
  /\ error_log' = Append(error_log, Row(t, "HTTP Error"))
  /\ lpc' = [lpc EXCEPT ![t] = "release"]
  /\ UNCHANGED <<log_lock, file_exists, log_exists, log_started, log_calls>>
  /\ UNCHANGED <<npmRest, ecoVars, crawlVars, namesVars>>

\* The end of the two with blocks: the file is closed, the lock released.
LogRelease(t) ==
  /\ lpc[t] = "release"
  /\ log_lock' = "free"
  /\ log_calls' = [log_calls EXCEPT ![t] = @ + 1]
  /\ lpc' = [lpc EXCEPT ![t] = "idle"]
  /\ UNCHANGED <<file_exists, log_exists, log_started, error_log>>
  /\ UNCHANGED <<npmRest, ecoVars, crawlVars, namesVars>>

NextLog ==
  \/ \E t \in LogThreads : LogCall(t)
  \/ \E t \in LogThreads : LogAcquire(t)
  \/ \E t \in LogThreads : LogCheck(t)
  \/ \E t \in LogThreads : LogOpen(t)
  \/ \E t \in LogThreads : LogHeader(t)
  \/ \E t \in LogThreads : LogRow(t)
  \/ \E t \in LogThreads : LogRelease(t)

\* ================================================================== npm.py
\* npm.py:12 (10000 in the source, scaled).
PAGE_LIMIT == 2
\* The package names are 1..MaxNames, in the order of the registry's keys.
MaxNames == 3
\* The lines of OUT_FILE holding one name are counted up to MaxCopies, which
\* stands for that many or more.
MaxCopies == 2
\* Invocations of npm.py main() in one behaviour.
MaxNamesRuns == 2
\* Requests that raise in one behaviour.
MaxFetchErrors == 1

NoName == 0
None == <<>>

\* json.dumps(last_name) of lines 39 and 68, and the decoding of the startkey
\* parameter by the registry.
Dumps(name) == <<"json", name>>
Loads(startkey_json) == startkey_json[2]

\* The keys of a set in the order of the registry.
RECURSIVE Sorted(_)
Sorted(S) ==
  IF S = {} THEN <<>>
  ELSE LET m == CHOOSE x \in S : \A y \in S : x <= y
       IN <<m>> \o Sorted(S \ {m})

\* Mutant: the registry answers from the key after startkey.
FromKey_exclusive(startkey_json) ==
  IF startkey_json = None THEN reg ELSE {k \in reg : k > Loads(startkey_json)}

\* _all_docs with startkey: the rows from that key on, the key itself
\* included; all rows without startkey (lines 17-19).
FromKey(startkey_json) ==
  IF startkey_json = None THEN reg ELSE {k \in reg : k >= Loads(startkey_json)}

\* fetch_page (lines 16-27): at most PAGE_LIMIT rows.
fetch_page(startkey_json) ==
  LET all == Sorted(FromKey(startkey_json))
  IN SubSeq(all, 1, Min(PAGE_LIMIT, Len(all)))

InitNames ==
  /\ reg \in SUBSET (1..MaxNames)
  /\ mpc = "idle"
  /\ start_key = None
  /\ rows = <<>>
  /\ out_count = [k \in 1..MaxNames |-> 0]
  /\ out_last = NoName
  /\ names_runs = 0
  /\ fetch_errors = 0

\* main() lines 31-44: the last line of an existing OUT_FILE is the startkey.
NamesStart ==
  /\ mpc \in {"idle", "done"}
  /\ names_runs < MaxNamesRuns
  /\ names_runs' = names_runs + 1
  /\ start_key' = (IF out_last # NoName THEN Dumps(out_last) ELSE None)
  /\ rows' = <<>>
  /\ mpc' = "fetch"
  /\ UNCHANGED <<reg, out_count, out_last, fetch_errors>>
  /\ UNCHANGED <<ecoVars, npmVars, crawlVars, logVars>>

\* Lines 47-48 and 55: the page is fetched.
FetchPage ==
  /\ mpc = "fetch"
  /\ rows' = fetch_page(start_key)
  /\ mpc' = "check"
  /\ UNCHANGED <<reg, start_key, out_count, out_last, names_runs, fetch_errors>>
  /\ UNCHANGED <<ecoVars, npmVars, crawlVars, logVars>>

\* Lines 49-53: the request raises; main() sleeps and tries again.
FetchError ==
  /\ mpc = "fetch"
  /\ fetch_errors < MaxFetchErrors
  /\ fetch_errors' = fetch_errors + 1
  /\ UNCHANGED <<reg, mpc, start_key, rows, out_count, out_last, names_runs>>
  /\ UNCHANGED <<ecoVars, npmVars, crawlVars, logVars>>

\* Lines 56-58: no rows, the loop ends and main() returns.
CheckRows ==
  /\ mpc = "check"
  /\ mpc' = (IF rows = <<>> THEN "done" ELSE "append")
  /\ UNCHANGED <<reg, start_key, rows, out_count, out_last, names_runs, fetch_errors>>
  /\ UNCHANGED <<ecoVars, npmVars, crawlVars, logVars>>

\* How many rows of the page hold the key k.
InRows(k) == Cardinality({i \in 1..Len(rows) : rows[i] = k})

\* Lines 61-68: every row of the page is appended to OUT_FILE, the last key
\* becomes the next startkey.
AppendRows ==
  /\ mpc = "append"
  /\ out_count' = [k \in 1..MaxNames |-> Min(MaxCopies, out_count[k] + InRows(k))]
  /\ out_last' = Last(rows)
  /\ start_key' = Dumps(Last(rows))
  /\ mpc' = "fetch"
  /\ UNCHANGED <<reg, rows, names_runs, fetch_errors>>
  /\ UNCHANGED <<ecoVars, npmVars, crawlVars, logVars>>

\* The process is killed between two steps.
NamesKill ==
  /\ mpc \in {"fetch", "check", "append"}
  /\ mpc' = "idle"
  /\ start_key' = None
  /\ rows' = <<>>
  /\ UNCHANGED <<reg, out_count, out_last, names_runs, fetch_errors>>
  /\ UNCHANGED <<ecoVars, npmVars, crawlVars, logVars>>

NextNames ==
  \/ NamesStart
  \/ FetchPage
  \/ FetchError
  \/ CheckRows
  \/ AppendRows
  \/ NamesKill

\* npm.py left to run: no kill.
NextNamesRun ==
  \/ NamesStart
  \/ FetchPage
  \/ FetchError
  \/ CheckRows
  \/ AppendRows

\* ========================================================== specifications
vars == <<ecoVars, npmVars, crawlVars, logVars, namesVars>>

\* npm.py before any run, with an empty registry, and no thread in log_error.
ToolsAtRest == InitLog /\ InitNames /\ reg = {}

\* oss_craw before any call, with a search that has no result page.
CrawlAtRest == InitCrawl /\ site = <<>> /\ start_page = 1

\* npm_plus at rest with an empty output directory.
NpmAtRest ==
  /\ InitNpm
  /\ artifacts = <<>>
  /\ \A n \in DOMAIN registry : registry[n] \in {"ok", "no_latest", "forbidden"}

\* ecosystem_parser at rest with one fixed input.
EcoAtRest ==
  InitEco /\ files = [f \in FilePaths |-> IF f = "npm1.json" THEN FileLines ELSE FileArray]

\* ecosystem_parser.
Init == InitEco /\ NpmAtRest /\ CrawlAtRest /\ ToolsAtRest
Spec == Init /\ [][NextEco]_vars

\* ecosystem_parser when no KeyboardInterrupt is sent: a run ends by completing
\* or by being killed.
NextKill ==
  \/ StartMain
  \/ NextEcosystem
  \/ NextFile
  \/ ReadLine
  \/ AutoSaveBookmark
  \/ ReadSmall
  \/ HandleResult
  \/ ParseFailed
  \/ DbConnect
  \/ DbBatch
  \/ FileDone
  \/ EcoDone
  \/ Finish
  \/ Crash
  \/ CrashInSave

SpecKill == Init /\ [][NextKill]_vars

\* ecosystem_parser with a bookmark file that can become unwritable; no
\* interrupt and no kill, so that a run ends only by completing.
InitSave ==
  /\ Init
  /\ files["npm1.json"] \in {FileLarge, FileBroken}
  /\ files["npm2.json"] = FileArray
  /\ files["pypi1.json"] = FileLarge

NextSave ==
  \/ StartMain
  \/ NextEcosystem
  \/ NextFile
  \/ ReadLine
  \/ AutoSaveBookmark
  \/ ReadSmall
  \/ HandleResult
  \/ ParseFailed
  \/ DbConnect
  \/ DbBatch
  \/ FileDone
  \/ EcoDone
  \/ Finish
  \/ Unwritable
  \/ WritableAgain

SpecSave == InitSave /\ [][NextSave]_vars

\* ecosystem_parser on files that exercise each rule of the parser and of the
\* database writer; no interrupt and no kill, a second run repeats the first.
InitParse ==
  /\ files \in [FilePaths -> UNION {ParseTemplates(f) : f \in FilePaths}]
  /\ \A f \in FilePaths : files[f] \in ParseTemplates(f)
  /\ InitProcess
  /\ NpmAtRest
  /\ CrawlAtRest
  /\ ToolsAtRest

NextParse ==
  \/ StartMain
  \/ NextEcosystem
  \/ NextFile
  \/ ReadLine
  \/ AutoSaveBookmark
  \/ ReadSmall
  \/ HandleResult
  \/ ParseFailed
  \/ DbConnect
  \/ DbBatch
  \/ FileDone
  \/ EcoDone
  \/ Finish

SpecParse == InitParse /\ [][NextParse]_vars

\* ecosystem_parser on files that exercise the counters of the bookmark: a
\* large file that reaches the auto-save more than once, files that yield no
\* record; no interrupt and no kill.
InitCount ==
  /\ files \in [FilePaths -> UNION {CountTemplates(f) : f \in FilePaths}]
  /\ \A f \in FilePaths : files[f] \in CountTemplates(f)
  /\ InitProcess
  /\ NpmAtRest
  /\ CrawlAtRest
  /\ ToolsAtRest

SpecCount == InitCount /\ [][NextParse]_vars

\* npm_plus.
InitNpmRun == InitNpm /\ EcoAtRest /\ CrawlAtRest /\ ToolsAtRest

\* The two thread pools: crawl_until_empty_parallel, and npm_plus with an
\* empty output directory and no interrupt.  The two programs share nothing;
\* they are run one after the other.
InitPools == InitCrawl /\ NpmAtRest /\ EcoAtRest /\ ToolsAtRest

NextPools ==
  \/ \E k \in 1..MaxConcurrency : CrawlStart(k)
  \/ InitialSubmit
  \/ \E p \in DOMAIN submitted_pages : FetchComplete(p)
  \/ Wait
  \/ \E p \in done_pages : HandleDone(p)
  \/ Combine
  \/ cpc = "returned" /\ NpmStart
  \/ NpmSubmit
  \/ \E n \in DOMAIN fut : WorkerStart(n)
  \/ \E n \in DOMAIN fut, r \in Outcomes \cup {"transient_status", "connection_error"} :
       Request(n, r)
  \/ \E n \in DOMAIN fut : Consume(n)
  \/ ChunkEnd

SpecPools == InitPools /\ [][NextPools]_vars

\* oss_craw alone.
InitCrawlRun == InitCrawl /\ NpmAtRest /\ EcoAtRest /\ ToolsAtRest
SpecCrawl == InitCrawlRun /\ [][NextCrawl]_vars

\* crawl_until_empty_parallel left to run: the worker threads end their fetch
\* and the main thread goes on, so every step that can be taken is taken in
\* the end.
SpecCrawlLive == InitCrawlRun /\ [][NextCrawl]_vars /\ WF_vars(NextCrawl)

\* oss_craw --all: crawl_until_empty alone.
SpecSeq == InitCrawlRun /\ [][NextSeq]_vars

\* The same search crawled twice, with --all --parallel and then with --all.
NextBoth ==
  \/ NextCrawl
  \/ cpc = "returned" /\ NextSeq

SpecBoth == InitCrawlRun /\ [][NextBoth]_vars
SpecNpm == InitNpmRun /\ [][NextNpm]_vars

\* log_error called by the threads of one process, the log file not existing
\* at first.
InitLogRun == InitLog /\ NpmAtRest /\ EcoAtRest /\ CrawlAtRest /\ InitNames /\ reg = {}
SpecLog == InitLogRun /\ [][NextLog]_vars

\* npm.py, with kills and later runs.
InitNamesRun == InitNames /\ InitLog /\ NpmAtRest /\ EcoAtRest /\ CrawlAtRest
SpecNames == InitNamesRun /\ [][NextNames]_vars

\* npm.py left to run: every step that can be taken is taken in the end.
SpecNamesLive == InitNamesRun /\ [][NextNamesRun]_vars /\ WF_vars(NextNamesRun)

\* ================================================================== claims
\* The records the loop of line 194 yields when started from position 0.
RECURSIVE LargePackages(_, _, _)
LargePackages(lines, file_path, k) ==
  IF k > Len(lines) THEN <<>>
  ELSE LET r == ParseLine(lines[k], FALSE, file_path, k - 1)
       IN (IF r[1] THEN <<r[2]>> ELSE <<>>) \o LargePackages(lines, file_path, k + 1)

\* What parse_json_file_with_bookmark yields for a file read from its start.
FullParse(f) ==
  IF files[f].large
    THEN [success |-> TRUE, packages |-> LargePackages(files[f].lines, f, 1)]
    ELSE ParseSmall(files[f].lines, f)

\* The places of the records of f that save_packages_to_db writes.
WritableSrc(f) ==
  LET ps == FullParse(f).packages
  IN {ps[i].src : i \in {j \in 1..Len(ps) : Saved(ps[j], EcoOfFile(f))}}

\* The database one uninterrupted run without database errors leaves.
RECURSIVE RunFiles(_, _, _, _)
RunFiles(d, ecosystem, paths, k) ==
  IF k > Len(paths) THEN d
  ELSE RunFiles(WriteBatch(d, ecosystem, FullParse(paths[k]).packages), ecosystem, paths, k + 1)
RECURSIVE RunEcosystems(_, _)
RunEcosystems(d, k) ==
  IF k > Len(EcoOrder) THEN d
  ELSE RunEcosystems(RunFiles(d, EcoOrder[k], FilesOf(EcoOrder[k]), 1), k + 1)
UninterruptedDb == RunEcosystems(EmptyDb, 1)

\* A bookmark b covers its cursor: every record that the database takes from a
\* line of b.current_file before b.current_file_position was committed.
CursorCovered(b) ==
  (b.current_file \in FilePaths /\ b.current_file_position > 0) =>
    \A src \in WritableSrc(b.current_file) :
      src[2] < b.current_file_position => src \in committed

\* C1: whenever a bookmark with current_file = F and current_file_position =
\* c > 0 is on disk, every record parsed from the lines of F before line c has
\* been committed to the database (data first, checkpoint second).
C1_PersistedCursorCommitted ==
  bookmarkFile.state = "ok" => CursorCovered(bookmarkFile.data)

\* C2: when the parser resumes a large file from the persisted position, no
\* record before that position is uncommitted (none is skipped) and no record
\* from that position on was committed before (none is emitted twice).
C2_ResumeNeitherSkipsNorRepeats ==
  (pc = "read" /\ line_num = 0 /\ start_position > 0) =>
    \A src \in WritableSrc(CurFile) :
      (src[2] < start_position) <=> (src \in committed)

\* C3: a run that completes after earlier runs were killed or interrupted
\* leaves the database an uninterrupted run over the same files leaves (no
\* database error being injected).
C3_ResumeEqualsUninterrupted ==
  (pc = "idle" /\ lastExit = "completed" /\ dbFailures = 0) => db = UninterruptedDb

\* The names held by the output artifacts.
ArtifactNames(arts) ==
  UNION {{arts[k][i].name : i \in 1..Len(arts[k])} : k \in DOMAIN arts}

\* C4: a record that an output artifact held when some run of npm_plus started
\* is still held by an output artifact: no later save_chunk_json replaces it.
C4_ArtifactsKeepEarlierRecords ==
  writtenBefore \subseteq ArtifactNames(artifacts)

\* The completion index at startup, read off the files as they were then:
\* the names of the artifact items without an error marker, and the names of
\* the rows of the error log below its header.
IndexAtStart ==
  UNION {{artifactsAtStart[k][i].name :
            i \in {j \in 1..Len(artifactsAtStart[k]) : ~artifactsAtStart[k][j].error}} :
         k \in DOMAIN artifactsAtStart}
  \cup {errorLogAtStart[i].package_name : i \in 2..Len(errorLogAtStart)}

\* C5: a name that was in the completion index when the run started (in an
\* artifact without an error marker, or in the error log) is never submitted
\* to the thread pool in that run.
C5_IndexedNeverSubmitted == submitted \cap IndexAtStart = {}

\* C5 witness: a run that started with an index fed by both sources has
\* submitted names.
C5_Witness ==
  /\ submitted # {}
  /\ Len(errorLogAtStart) >= 2
  /\ \E k \in DOMAIN artifactsAtStart : k > 0 /\ artifactsAtStart[k] # <<>>
  /\ \E k \in DOMAIN artifactsAtStart : \E i \in 1..Len(artifactsAtStart[k]) :
        artifactsAtStart[k][i].error

\* The files this run has parsed or holds records of.
Processed == touched \cup {packages[i].src[1] : i \in 1..Len(packages)}

\* C6: no file that the bookmark the run started with records as completed,
\* and no file of an ecosystem it records as completed, is parsed or written
\* to the database in that run.
C6_CompletedNeverReprocessed ==
  \A f \in Processed :
    /\ f \notin session.completed_files
    /\ EcoOfFile(f) \notin session.completed_ecosystems

\* C6 witness: a resumed run that skipped a completed ecosystem and a
\* completed file has parsed another file.
C6_Witness ==
  /\ session.completed_ecosystems # {}
  /\ session.completed_files # {}
  /\ touched # {}
  /\ pc = "db_batch"

\* C7: a file counted in failed_files is not in completed_files, in memory or
\* on disk.
C7_FailedNotCompleted ==
  \A f \in failed_files :
    /\ f \notin bookmark.completed_files
    /\ bookmarkFile.state = "ok" => f \notin bookmarkFile.data.completed_files

\* Every file of every ecosystem b records as completed is in completed_files.
EcosystemsComplete(b) ==
  \A e \in b.completed_ecosystems :
    \A i \in 1..Len(FilesOf(e)) : FilesOf(e)[i] \in b.completed_files

\* C8: an ecosystem is in completed_ecosystems only if every one of its files
\* is in completed_files, in memory and on disk.
C8_CompletedEcosystemHasAllFiles ==
  /\ EcosystemsComplete(bookmark)
  /\ bookmarkFile.state = "ok" => EcosystemsComplete(bookmarkFile.data)

\* C9: a file is in completed_files only after every valid record parsed from
\* it has been committed to the database.
C9_CompletedFileCommitted ==
  \A f \in FilePaths :
    (f \in bookmark.completed_files
       \/ (bookmarkFile.state = "ok" /\ f \in bookmarkFile.data.completed_files))
    => WritableSrc(f) \subseteq committed

\* C10: the bookmark file is deleted only by a run in which every discovered
\* ecosystem is completed and every discovered file is in completed_files.
C10_DeletedOnlyWhenDone ==
  [][(bookmarkFile.state # "absent" /\ bookmarkFile'.state = "absent")
       => /\ Ecosystems \subseteq bookmark.completed_ecosystems
          /\ FilePaths \subseteq bookmark.completed_files]_vars


\* C11: a KeyboardInterrupt that arrives while a file is processed (inside the
\* try of line 370) ends the run with one save of the in-memory bookmark: the
\* bookmark file holds that bookmark and is not deleted, the current ecosystem
\* is not in its completed_ecosystems, and nothing more is parsed or written.
C11_InterruptSavesOnceAndStops ==
  [][(pc \in TryPcs /\ lastExit = "running" /\ lastExit' = "interrupted")
       => /\ bookmarkFile' = Written(bookmark)
          /\ bookmarkFile'.state = "ok"
          /\ CurEco \notin bookmarkFile'.data.completed_ecosystems
          /\ pc' = "idle"
          /\ db' = db /\ committed' = committed /\ touched' = touched]_vars

\* C11 witness: the run was interrupted inside a large file after an auto-save
\* and its commit; only the handler's save puts that total_saved next to the
\* cursor on disk.
C11_Witness ==
  /\ lastExit = "interrupted"
  /\ pc = "idle"
  /\ bookmarkFile.state = "ok"
  /\ bookmarkFile.data.current_file_position > 0
  /\ bookmarkFile.data.total_saved > 0
  /\ bookmarkFile.data.completed_files = {}


\* C12: save_bookmark is atomic with respect to a kill of the process: the
\* bookmark file a restart reads is a complete bookmark (the one before the
\* save or the new one) or does not exist; it is never a truncated file that
\* load_bookmark turns into an empty bookmark.
C12_SaveBookmarkAtomic ==
  /\ bookmarkFile.state \in {"absent", "ok"}
  /\ bookmarkFile.state = "ok" => load_bookmark(bookmarkFile) = bookmarkFile.data


\* The progress fields of bookmark b1 are not behind those of b0.
ProgressKept(b0, b1) ==
  /\ b0.completed_ecosystems \subseteq b1.completed_ecosystems
  /\ b0.completed_files \subseteq b1.completed_files
  /\ b0.total_processed <= b1.total_processed
  /\ b0.total_saved <= b1.total_saved

\* C13: a save_bookmark that fails because the file cannot be written leaves
\* the file as it was, does not end the run and takes nothing from the
\* progress fields of the in-memory bookmark; the run goes on to its end (with
\* no database error it leaves the database of an undisturbed run), and every
\* later save that succeeds writes the whole in-memory bookmark.
C13_SaveFailureTolerated ==
  /\ []((pc = "finish" /\ dbFailures = 0) => db = UninterruptedDb)
  /\ [][failedSaves' > failedSaves
          => /\ bookmarkFile' = bookmarkFile
             /\ pc' # "idle"
             /\ ProgressKept(bookmark, bookmark')]_vars
  /\ [][(bookmarkFile' # bookmarkFile /\ pc' # "idle")
          => bookmarkFile' = Written(bookmark')]_vars

\* C13 witness: in the first run a save failed, and the save that ended the
\* first ecosystem succeeded and wrote all the progress made so far.
C13_Witness ==
  /\ runs = 1
  /\ failedSaves > 0
  /\ pc = "eco_loop"
  /\ ecoIdx = 2
  /\ bookmarkFile = Written(bookmark)
  /\ bookmark.completed_files # {}


\* C14: the page fetches in flight in crawl_until_empty_parallel (futures
\* submitted and not yet completed) never exceed concurrency, now or at the
\* peak of the call, and the fetch_meta calls running at once in npm_plus
\* never exceed MAX_WORKERS.
C14_BoundedInFlight ==
  /\ Cardinality(InFlight(submitted_pages)) <= concurrency
  /\ peak <= concurrency
  /\ Cardinality(Running) <= MAX_WORKERS

\* C14 witness: the crawl had as many fetches in flight as its concurrency
\* allows and went on to further pages; npm_plus has all its workers busy and
\* a further fetch waiting.
C14_Witness ==
  /\ concurrency = MaxConcurrency
  /\ peak = concurrency
  /\ next_page > concurrency + 1
  /\ Cardinality(Running) = MAX_WORKERS
  /\ \E n \in DOMAIN fut : fut[n] = "queued"


\* C15: in npm_plus the fetches submitted and not finished (running or
\* queued in the pool) never exceed MAX_WORKERS, whatever the chunk size: the
\* next fetch is submitted only when a worker slot frees.
C15_SubmittedNotFinishedBounded ==
  Cardinality({n \in DOMAIN fut : fut[n] \in {"queued", "running"}}) <= MAX_WORKERS


\* C16: after a KeyboardInterrupt during a chunk of npm_plus no fetch that had
\* not started is started, the fetches in flight are drained before main()
\* returns, and every fetch that completed before the return is in the file
\* the final save_chunk_json writes or in the failure log.
C16_InterruptStopsAndFlushes ==
  /\ [][npc = "shutdown"
          => \A n \in DOMAIN fut \cap DOMAIN fut' :
               fut[n] = "queued" => fut'[n] = "queued"]_vars
  /\ [][(npc = "shutdown" /\ nexit' = "interrupted")
          => /\ \A n \in DOMAIN fut : fut[n] # "running"
             /\ \A n \in DOMAIN fut :
                  fut[n] \in {"done", "consumed"}
                    => \/ n \in LoggedNames(error_log')
                       \/ /\ FileIndex(idx, start_num) \in DOMAIN artifacts'
                          /\ n \in NamesOf(artifacts'[FileIndex(idx, start_num)])]_vars


\* The rows of the failure log for a name, and the names held by a list.
RowsFor(log, n) == Cardinality({i \in 2..Len(log) : log[i].package_name = n})
InList(data, n) == \E i \in 1..Len(data) : data[i].name = n

CountIn(data, n) == Cardinality({i \in 1..Len(data) : data[i].name = n})

\* C19: a failed item does not abort its chunk.  Every name of the chunk whose
\* future was consumed is exactly once in results or exactly once in the
\* failure log, never in both, and the others are in neither; a chunk that is
\* not interrupted ends only when every one of its names was consumed, and
\* its results are then written.
C19_EveryItemConsumedOnce ==
  /\ [](\A n \in DOMAIN fut :
          CountIn(results, n) + RowsFor(error_log, n)
            = (IF fut[n] = "consumed" THEN 1 ELSE 0))
  /\ [][(npc = "collect" /\ npc' = "submit")
          => /\ \A n \in DOMAIN fut : fut[n] = "consumed"
             /\ results # <<>> => artifacts'[FileIndex(idx, start_num)] = results]_vars

\* C19 witness: a full chunk was consumed to its end, with a package fetched
\* and two fetches failed.
C19_Witness ==
  /\ npc = "collect"
  /\ Cardinality(DOMAIN fut) = CHUNK_SIZE
  /\ \A n \in DOMAIN fut : fut[n] = "consumed"
  /\ results # <<>>
  /\ Cardinality({n \in DOMAIN fut : RowsFor(error_log, n) = 1}) >= 2


\* The records of a list of packages, without the place they were read from.
Records(ps) == [i \in 1..Len(ps) |-> <<ps[i].Name, ps[i].Versions>>]

\* C20: parse_json_file_with_bookmark, started from position 0 on a file of
\* valid record lines with malformed lines in between, succeeds and returns
\* exactly the records of the valid lines, in file order, on the large path
\* and on the small path.
C20_ParseReturnsValidRecords ==
  /\ pc # "parse_failed"
  /\ (pc = "parsed" /\ start_position = 0)
       => Records(packages) = Records(LargePackages(CurLines, CurFile, 1))



\* C21: a small file whose content starts with '[' and ends with ']' and does
\* not decode as one JSON array is parsed again line by line: the parse
\* succeeds and returns the records of the valid lines.
C21_SmallArrayFallsBack ==
  (/\ pc \in {"parsed", "parse_failed"}
   /\ ~files[CurFile].large
   /\ LooksLikeArray(Flatten(CurLines))
   /\ ~JsonArrayOk(Flatten(CurLines)))
  => /\ pc = "parsed"
     /\ Records(packages) = Records(SmallLinePackages(CurLines, CurFile, 1))



\* The line begins with '[' or ']' and holds a complete record.
LineCarriesRecord(line) ==
  StartsWithBracket(line) /\ \E i \in 1..Len(line) : line[i].t = "obj"

\* C22: line-by-line parsing skips as delimiters only the lines that are
\* solely '[', ']' or ','; a line that begins with '[' or ']' and also carries
\* a record is not dropped: its record is among the parsed packages, on the
\* large path and on the small path.
C22_OnlyDelimitersSkipped ==
  /\ [][(/\ pc = "read"
         /\ line_num < Len(CurLines)
         /\ line_num >= start_position
         /\ LineCarriesRecord(CurLines[line_num + 1]))
        => /\ Len(packages') = Len(packages) + 1
           /\ packages'[Len(packages')].src = <<CurFile, line_num>>]_vars
  /\ [][(pc = "read_small" /\ pc' = "parsed" /\ ~LooksLikeArray(Flatten(CurLines)))
        => \A k \in 1..Len(CurLines) :
             LineCarriesRecord(CurLines[k])
               => \E i \in 1..Len(packages') : packages'[i].src = <<CurFile, k - 1>>]_vars



\* The batch save_packages_to_db is at (line 285).
CurBatch ==
  SubSeq(packages, batchStart + 1, Min(batchStart + BATCH_SIZE, Len(packages)))

\* saved_count after the step of save_packages_to_db being taken: the local
\* while the loop goes on, else what the caller received.
CountAfter ==
  IF pc' = "db_batch" THEN sp_saved'
  ELSE IF dbCaller = "auto" THEN bookmark'.total_saved - bookmark.total_saved
  ELSE saved_count'

\* Some file of the ecosystem holds a record of that name (trimmed) with a
\* non-empty Versions sequence.
HasRecordNamed(ecosystem, name) ==
  \E f \in FilePaths :
    /\ EcoOfFile(f) = ecosystem
    /\ \E k \in 1..Len(files[f].lines) : \E i \in 1..Len(files[f].lines[k]) :
         LET tok == files[f].lines[k][i]
         IN tok.t = "obj" /\ Strip(tok.Name) = name /\ Len(tok.Versions) > 0

\* The records of a batch with a non-empty trimmed name and some version.
NotEmptyIn(batch) ==
  Cardinality({i \in 1..Len(batch) :
                 Strip(batch[i].Name) # "" /\ Len(batch[i].Versions) > 0})

\* C23: save_packages_to_db writes no package row and no version row for a
\* record whose Name is empty after trimming or whose Versions sequence is
\* empty: every row, committed or in the open transaction, carries a non-empty
\* name that a record with versions holds, and saved_count grows by no more
\* than the records of the batch that are not of that kind.
C23_EmptyRecordsNeverWritten ==
  /\ [](\A row \in db.packages \cup conn.packages \cup db.versions \cup conn.versions :
          row[2] # "" /\ HasRecordNamed(row[1], row[2]))
  /\ [][pc = "db_batch" => CountAfter <= sp_saved + NotEmptyIn(CurBatch)]_vars

\* C23 witness: the second batch of a list, made of a record with a blank name
\* and a record without versions, was gone through; only the one valid record
\* of the first batch is counted and in the database.
C23_Witness ==
  /\ pc = "db_batch"
  /\ files[CurFile] = FileMixed
  /\ batchStart = 2 * BATCH_SIZE
  /\ sp_saved = 1
  /\ db.packages = {<<CurEco, "g">>}



\* A statement of the record raises Error: the record is not skipped by line
\* 292 and the database rejects its name or one of its versions.
WriteRaises(package) ==
  /\ Strip(package.Name) # ""
  /\ Len(package.Versions) > 0
  /\ (InsertFails(package) \/ VersionsFail(package))

\* The records of the batch that are valid and whose statements all succeed.
GoodIn(batch) ==
  {i \in 1..Len(batch) :
     /\ Strip(batch[i].Name) # ""
     /\ Len(batch[i].Versions) > 0
     /\ ~WriteRaises(batch[i])}

\* The versions the database d holds for a package.
VersionsOf(d, ecosystem, name) ==
  {v[3] : v \in {w \in d.versions : w[1] = ecosystem /\ w[2] = name}}

LastGoodIn(batch) ==
  {i \in GoodIn(batch) :
     \A j \in (i + 1)..Len(batch) : Strip(batch[j].Name) # Strip(batch[i].Name)}

\* C25 as stated: applying the same list twice leaves what applying it once
\* leaves, and after the write of a record the stored version set of its name
\* is exactly the non-blank versions of the record.
C25_StoredExactlyNonBlank ==
  /\ [](pc = "db_connect"
          => LET once == WriteBatch(db, CurEco, packages)
             IN WriteBatch(once, CurEco, packages) = once)
  /\ [][(pc = "db_batch" /\ dbFailures' = dbFailures)
        => \A i \in LastGoodIn(CurBatch) :
             VersionsOf(db', CurEco, Strip(CurBatch[i].Name))
               = NonBlank(CurBatch[i].Versions)]_vars

\* C25 (amended): save_packages_to_db is idempotent on the sink: applying the
\* same list twice leaves the package names and the version sets that
\* applying it once leaves, a second run over the same files leaves the
\* database of the first, and after the write of a record the stored version
\* set of its name is exactly the non-blank versions of the record, each cut
\* to its first 500 characters, with no leftover from an earlier write.
C25_WriteIdempotentReplaces ==
  /\ [](pc = "db_connect"
          => LET once == WriteBatch(db, CurEco, packages)
             IN WriteBatch(once, CurEco, packages) = once)
  /\ []((pc = "finish" /\ dbFailures = 0) => db = UninterruptedDb)
  /\ [][(pc = "db_batch" /\ dbFailures' = dbFailures)
        => \A i \in LastGoodIn(CurBatch) :
             VersionsOf(db', CurEco, Strip(CurBatch[i].Name))
               = {Limit500(x) : x \in NonBlank(CurBatch[i].Versions)}]_vars

\* C25 witness: in a second run over the same files the first batch of the
\* list was written again: the versions of g are those of its first record,
\* the long ones cut, and the version its later record left in the first run
\* is gone.
C25_Witness ==
  /\ runs = 2
  /\ pc = "db_batch"
  /\ files[CurFile] = FileMixed
  /\ batchStart = BATCH_SIZE
  /\ VersionsOf(db, CurEco, "g") = {"1", "long"}



\* C26: when a file has been processed to completion, the bookmark saved for
\* it has the file in completed_files and its current_file_position is the
\* last line number of the file (10 for a file of 10 lines).
C26_CompletedFileCursorAtEnd ==
  [][(pc = "file_done" /\ pc' = "file_loop" /\ CurFile \notin failed_files')
     => /\ bookmarkFile'.state = "ok"
        /\ CurFile \in bookmarkFile'.data.completed_files
        /\ bookmarkFile'.data.current_file_position = Len(CurLines)]_vars



\* C27: in a session that resumes from the bookmark, total_processed and
\* total_saved never decrease from one persisted bookmark to the next: every
\* bookmark a run writes (auto-save, file completion, ecosystem completion,
\* interrupt save) has counters at least those of the bookmark file it
\* replaces and of the bookmark the run started with.
C27_CountersNeverDecrease ==
  [][(bookmarkFile' # bookmarkFile /\ bookmarkFile'.state = "ok" /\ pc # "idle")
     => /\ session.total_processed <= bookmarkFile'.data.total_processed
        /\ session.total_saved <= bookmarkFile'.data.total_saved
        /\ bookmarkFile.state = "ok"
             => /\ bookmarkFile.data.total_processed <= bookmarkFile'.data.total_processed
                /\ bookmarkFile.data.total_saved <= bookmarkFile'.data.total_saved]_vars

\* C27 witness: a run that resumed from a bookmark with progress was
\* interrupted after more progress; the bookmark it left has both counters
\* above those it started with.
C27_Witness ==
  /\ runs = 2
  /\ pc = "idle"
  /\ lastExit = "interrupted"
  /\ session.total_saved > 0
  /\ bookmarkFile.state = "ok"
  /\ bookmarkFile.data.total_processed > session.total_processed
  /\ bookmarkFile.data.total_saved > session.total_saved



\* C28: for any interleaving of concurrent log_error calls the failure log
\* has exactly one header row, which is its first row; every call adds exactly
\* one data row after it (the rows of a thread are its completed calls, plus
\* the call that has written its row and not yet returned); and no row already
\* in the log is ever modified or removed.
C28_LogAppendOnlyOneHeader ==
  /\ [](error_log # <<>>
          => /\ error_log[1] = HeaderRow
             /\ \A i \in 2..Len(error_log) : error_log[i] # HeaderRow)
  /\ [](\A t \in LogThreads :
          RowsFor(error_log, t) = log_calls[t] + (IF lpc[t] = "release" THEN 1 ELSE 0))
  /\ [][/\ Len(error_log') >= Len(error_log)
        /\ SubSeq(error_log', 1, Len(error_log)) = error_log]_vars

\* C28 witness: a thread has written the second data row and still holds the
\* lock while another thread waits for it.
C28_Witness ==
  /\ Len(error_log) = 3
  /\ \E t \in LogThreads, u \in LogThreads :
       /\ t # u
       /\ lpc[t] = "release"
       /\ log_lock = t
       /\ lpc[u] = "acquire"
       /\ log_calls[u] = 0



\* The registry holds no package name after the startkey main() is at.
NoNameAfterCursor ==
  IF start_key = None THEN reg = {} ELSE \A k \in reg : k <= Loads(start_key)

\* C29: npm.py main terminates: once the registry has no package name after
\* the current startkey, the fetch loop reaches the break of line 58 after
\* finitely many page requests (the requests succeeding in the end).
C29_FetchLoopTerminates ==
  (mpc \in {"fetch", "check", "append"} /\ NoNameAfterCursor) ~> (mpc = "done")



\* C30: each package name of the registry is appended to OUT_FILE exactly
\* once: no name is written a second time (not the inclusive startkey of the
\* next page, not the name taken from the last line on resume), only names of
\* the registry are written, and when main() ends no name is missing.
C30_EachNameWrittenOnce ==
  /\ \A k \in 1..MaxNames : out_count[k] <= 1
  /\ \A k \in (1..MaxNames) \ reg : out_count[k] = 0
  /\ mpc = "done" => \A k \in reg : out_count[k] = 1


\* C34: in every bookmark the parser has persisted, total_saved is at most
\* total_processed: no more records are counted as committed to the database
\* than were counted as processed, whatever the files hold, files that yield
\* no record included.
C34_SavedAtMostProcessed ==
  bookmarkFile.state = "ok"
    => bookmarkFile.data.total_saved <= bookmarkFile.data.total_processed

\* C35: in a run started from an empty bookmark, every bookmark written to the
\* file holds in total_processed the number of records the parser has produced
\* so far: the auto-save updates inside a large file and the update at the end
\* of a file count each record once.
C35_ProcessedCountsEachRecordOnce ==
  [][(bookmarkFile' # bookmarkFile /\ bookmarkFile'.state = "ok" /\ session' = EmptyBookmark)
       => bookmarkFile'.data.total_processed = parsed']_vars


\* The pages crawl_until_empty requested that were not empty.
NonEmptyVisited == {requested[k] : k \in {j \in 1..Len(requested) :
                                           get_component_list(requested[j]) # <<>>}}

\* The last non-empty page visited, start_page - 1 when there is none.
LastNonEmptyVisited ==
  IF NonEmptyVisited = {} THEN start_page - 1
  ELSE CHOOSE p \in NonEmptyVisited : \A q \in NonEmptyVisited : q <= p

\* C31: crawl_until_empty requests the pages start_page, start_page + 1, ...
\* in order; no page is requested after an empty one or after max_pages pages,
\* and the loop only ends on one of the two; the dict returned holds as
\* last_page the last non-empty page visited (start_page - 1 when there is
\* none) and pages_crawled = last_page - start_page + 1.
C31_SequentialCrawlInOrder ==
  /\ \A k \in 1..Len(requested) : requested[k] = start_page + k - 1
  /\ Len(requested) <= range(max_pages)
  /\ \A k \in 1..(Len(requested) - 1) : get_component_list(requested[k]) # <<>>
  /\ spc \in {"combine", "returned"}
       => \/ Len(requested) = range(max_pages)
          \/ /\ requested # <<>>
             /\ get_component_list(Last(requested)) = <<>>
  /\ seq_result.returned
       => /\ seq_result.last_page = LastNonEmptyVisited
          /\ seq_result.pages_crawled = seq_result.last_page - start_page + 1

\* C31 witness: a call returned after two non-empty pages, stopped by the
\* empty page that follows them with max_pages not yet used up.
C31_Witness ==
  /\ seq_result.returned
  /\ seq_result.pages_crawled = 2
  /\ Len(requested) = 3
  /\ Len(requested) < max_pages + 1
  /\ get_component_list(Last(requested)) = <<>>


\* C32: in crawl_until_empty_parallel, from the moment a fetched page is seen
\* to be empty no page is submitted any more, and the method then returns,
\* with every page it submitted fetched and handled; no page number is
\* submitted twice.
C32_StopsSubmittingAndTerminates ==
  /\ [][(stop \/ stop') => submit_log' = submit_log]_vars
  /\ (stop ~> (cpc = "returned"))
  /\ [](cpc = "returned" => \A k \in 1..Len(submit_log) : submit_log[k] \in pages_done)
  /\ [](\A j, k \in 1..Len(submit_log) : submit_log[j] = submit_log[k] => j = k)

\* C32 witness: the call returned after an empty page was seen, and a page
\* beyond the empty one, submitted before that, was fetched and handled too.
C32_Witness ==
  /\ cpc = "returned"
  /\ stop
  /\ \E p, q \in pages_done :
       /\ q < p
       /\ get_component_list(q) = <<>>
       /\ get_component_list(p) # <<>>


\* The smallest page from start_page on that has no component.
SmallestEmpty ==
  CHOOSE p \in start_page..Max(start_page, Len(site) + 1) :
    /\ get_component_list(p) = <<>>
    /\ \A q \in start_page..(p - 1) : get_component_list(q) # <<>>

\* C33: whatever the order in which the fetches complete, when
\* crawl_until_empty_parallel returns it has fetched every page from
\* start_page up to, not including, the smallest empty page, and its combined
\* file holds their links; it holds every link of the combined file that
\* crawl_until_empty writes for the same search and start page.
C33_ParallelCoversSequential ==
  /\ cpc = "returned"
       => \A p \in start_page..(SmallestEmpty - 1) :
            /\ p \in pages_done
            /\ page_links(get_component_list(p)) \subseteq combined.links
  /\ (cpc = "returned" /\ seq_result.returned)
       => seq_result.links \subseteq combined.links

\* C33 witness: both crawls returned, the sequential one stopped by an empty
\* page after collecting links, and the parallel one holds those links and
\* more: it had fetched a page beyond the empty one.
C33_Witness ==
  /\ cpc = "returned"
  /\ combined.written
  /\ seq_result.returned
  /\ seq_result.links # {}
  /\ get_component_list(Last(requested)) = <<>>
  /\ seq_result.links \subseteq combined.links
  /\ seq_result.links # combined.links

====
